---- MODULE Spec2Model ----
(***************************************************************************)
(* A model of the kv storage engine: the DB write/read pipeline            *)
(* (src/core/db.cpp), the MemTable (src/memtable/memtable.cpp), the        *)
(* WriteBatch (src/write_batch.cpp), the write-ahead log (src/wal/wal.cpp) *)
(* and the SSTable block/table builder and reader (src/sstable/).          *)
(*                                                                         *)
(* Strings are sequences of bytes (0..255).  TLC integers are 32-bit       *)
(* signed, so an unsigned 32-bit word that may exceed 2^31-1 (a CRC) is    *)
(* kept as its four little-endian bytes.                                   *)
(***************************************************************************)
EXTENDS Integers, Sequences, FiniteSets, TLC

\* ------------------------------------------------------------------ bytes

Byte == 0..255

\* The value of a C++ expression that does not fit TLC's integers.
Huge == 2147483647

Min(a, b) == IF a <= b THEN a ELSE b

\* s[from..] as std::string(data + from, n) reads it; short when the source is.
Range(s, from, n) == SubSeq(s, from + 1, Min(from + n, Len(s)))

RECURSIVE StrCompareFrom(_, _, _)
StrCompareFrom(a, b, i) ==
    IF i > Len(a) /\ i > Len(b) THEN 0
    ELSE IF i > Len(a) THEN -1
    ELSE IF i > Len(b) THEN 1
    ELSE IF a[i] < b[i] THEN -1
    ELSE IF a[i] > b[i] THEN 1
    ELSE StrCompareFrom(a, b, i + 1)

\* std::string::compare: unsigned byte-wise lexicographic order.
StrCompare(a, b) == StrCompareFrom(a, b, 1)

StrLess(a, b) == StrCompare(a, b) < 0

StrGreaterEq(a, b) == StrCompare(a, b) >= 0

RECURSIVE XorBits(_, _, _)
XorBits(a, b, n) ==
    IF n = 0 THEN 0
    ELSE ((a + b) % 2) + 2 * XorBits(a \div 2, b \div 2, n - 1)

\* a ^ b for every pair of 4-bit values.
XorTable == [a \in 0..15 |-> [b \in 0..15 |-> XorBits(a, b, 4)]]

\* a ^ b on bytes: the high and the low four bits.
XorByte(a, b) == 16 * XorTable[a \div 16][b \div 16] + XorTable[a % 16][b % 16]

\* a ^ b on 32-bit words (four little-endian bytes each).
XorWord(a, b) == [i \in 1..4 |-> XorByte(a[i], b[i])]

AllOnes == <<255, 255, 255, 255>>

\* ----------------------------------------------------------- src/wal/wal.cpp

kPut == 1
kDelete == 2
kSync == 3
kEof == 4

\* The lookup table of wal.cpp, entry by entry, each as little-endian bytes.
kCRC32Table == <<
    <<0,0,0,0>>, <<150,48,7,119>>, <<44,97,14,238>>, <<186,81,9,153>>,
    <<25,196,109,7>>, <<143,244,106,112>>, <<53,165,99,233>>, <<163,149,100,158>>,
    <<50,136,219,14>>, <<164,184,220,121>>, <<30,233,213,224>>, <<136,217,210,151>>,
    <<43,76,182,9>>, <<189,124,177,126>>, <<7,45,184,231>>, <<145,29,191,144>>,
    <<100,16,183,29>>, <<242,32,176,106>>, <<72,113,185,243>>, <<222,65,190,132>>,
    <<125,212,218,26>>, <<235,228,221,109>>, <<81,181,212,244>>, <<199,133,211,131>>,
    <<86,152,108,19>>, <<192,168,107,100>>, <<122,249,98,253>>, <<236,201,101,138>>,
    <<79,92,1,20>>, <<217,108,6,99>>, <<99,61,15,250>>, <<245,13,8,141>>,
    <<200,32,110,59>>, <<94,16,105,76>>, <<228,65,96,213>>, <<114,113,103,162>>,
    <<209,228,3,60>>, <<71,212,4,75>>, <<253,133,13,210>>, <<107,181,10,165>>,
    <<250,168,181,53>>, <<108,152,178,66>>, <<214,201,187,219>>, <<64,249,188,172>>,
    <<227,108,216,50>>, <<117,92,223,69>>, <<207,13,214,220>>, <<89,61,177,10>>,
    <<172,48,217,38>>, <<58,0,222,81>>, <<128,81,215,200>>, <<22,97,208,191>>,
    <<181,244,180,33>>, <<35,196,179,86>>, <<153,149,186,207>>, <<15,165,189,184>>,
    <<158,184,2,40>>, <<8,136,5,95>>, <<178,217,12,198>>, <<36,233,11,177>>,
    <<135,124,111,47>>, <<17,76,104,88>>, <<171,29,97,193>>, <<61,45,102,182>>,
    <<144,65,220,118>>, <<6,113,219,1>>, <<188,32,210,152>>, <<42,16,213,239>>,
    <<137,133,177,113>>, <<31,181,182,6>>, <<165,228,191,159>>, <<51,212,184,232>>,
    <<162,201,7,120>>, <<52,249,0,15>>, <<142,168,9,150>>, <<24,152,14,225>>,
    <<187,13,106,127>>, <<45,61,109,8>>, <<151,108,100,145>>, <<1,92,99,230>>,
    <<244,81,107,107>>, <<98,97,108,28>>, <<216,48,101,133>>, <<78,0,98,242>>,
    <<237,149,6,108>>, <<123,165,1,27>>, <<193,244,8,130>>, <<87,196,15,245>>,
    <<198,217,176,101>>, <<80,233,183,18>>, <<234,184,190,139>>, <<124,136,185,252>>,
    <<223,29,221,98>>, <<73,45,218,21>>, <<243,124,211,140>>, <<101,76,212,251>>,
    <<88,97,178,77>>, <<206,81,181,58>>, <<116,0,188,163>>, <<226,48,187,212>>,
    <<65,165,223,74>>, <<215,149,216,61>>, <<109,196,209,164>>, <<251,244,214,211>>,
    <<106,233,105,67>>, <<252,217,110,52>>, <<70,136,103,173>>, <<208,184,96,218>>,
    <<115,45,4,68>>, <<229,29,3,51>>, <<95,76,10,170>>, <<201,124,13,221>>,
    <<60,113,5,80>>, <<170,65,2,39>>, <<16,16,11,190>>, <<134,32,12,201>>,
    <<37,181,104,87>>, <<179,133,111,32>>, <<9,212,102,185>>, <<159,228,97,206>>,
    <<14,249,222,94>>, <<152,201,217,41>>, <<34,152,208,176>>, <<180,168,215,199>>,
    <<23,61,179,89>>, <<129,13,180,46>>, <<59,92,189,183>>, <<173,108,186,192>>,
    <<32,131,184,237>>, <<182,179,191,154>>, <<12,226,182,3>>, <<154,210,177,116>>,
    <<57,71,213,234>>, <<175,119,210,157>>, <<21,38,219,4>>, <<131,22,220,115>>,
    <<18,11,99,227>>, <<132,59,100,148>>, <<62,106,109,13>>, <<168,90,106,122>>,
    <<11,207,14,228>>, <<157,255,9,147>>, <<39,174,0,10>>, <<177,158,7,125>>,
    <<68,147,15,240>>, <<210,163,8,135>>, <<104,242,1,30>>, <<254,194,6,105>>,
    <<93,87,98,247>>, <<203,103,101,128>>, <<113,54,108,25>>, <<231,6,107,110>>,
    <<118,27,212,254>>, <<224,43,211,137>>, <<90,122,218,16>>, <<204,74,221,103>>,
    <<111,223,185,249>>, <<249,239,190,142>>, <<67,190,183,23>>, <<213,142,176,96>>,
    <<232,163,214,214>>, <<126,147,209,161>>, <<196,194,216,56>>, <<82,242,223,79>>,
    <<241,103,187,209>>, <<103,87,188,166>>, <<221,6,181,63>>, <<75,54,178,72>>,
    <<218,43,13,216>>, <<76,27,10,175>>, <<246,74,3,54>>, <<96,122,4,65>>,
    <<195,239,96,223>>, <<85,223,103,168>>, <<239,142,110,49>>, <<121,190,105,70>>,
    <<140,179,97,203>>, <<26,131,102,188>>, <<160,210,111,37>>, <<54,226,104,82>>,
    <<149,119,12,204>>, <<3,71,11,187>>, <<185,22,2,34>>, <<47,38,5,85>>,
    <<190,59,186,197>>, <<40,11,189,178>>, <<146,90,180,43>>, <<4,106,179,92>>,
    <<167,255,215,194>>, <<49,207,208,181>>, <<139,158,217,44>>, <<29,174,222,91>>,
    <<176,194,100,155>>, <<38,242,99,236>>, <<156,163,106,117>>, <<10,147,109,2>>,
    <<169,6,9,156>>, <<63,54,14,235>>, <<133,103,7,114>>, <<19,87,0,5>>,
    <<130,74,191,149>>, <<20,122,184,226>>, <<174,43,177,123>>, <<56,27,182,12>>,
    <<155,142,210,146>>, <<13,190,213,229>>, <<183,239,220,124>>, <<33,223,219,11>>,
    <<212,210,211,134>>, <<66,226,212,241>>, <<248,179,221,104>>, <<110,131,218,31>>,
    <<205,22,190,129>>, <<91,38,185,246>>, <<225,119,176,111>>, <<119,71,183,24>>,
    <<230,90,8,136>>, <<112,106,15,255>>, <<202,59,6,102>>, <<92,11,1,17>>,
    <<255,158,101,143>>, <<105,174,98,248>>, <<211,255,107,97>>, <<69,207,108,22>>,
    <<120,226,10,160>>, <<238,210,13,215>>, <<84,131,4,78>>, <<194,179,3,57>>,
    <<97,38,103,167>>, <<247,22,96,208>>, <<77,71,105,73>>, <<219,119,110,62>>,
    <<74,106,209,174>>, <<220,90,214,217>>, <<102,11,223,64>>, <<240,59,216,55>>,
    <<83,174,188,169>>, <<197,158,187,222>>, <<127,207,178,71>>, <<233,255,181,48>>,
    <<28,242,189,189>>, <<138,194,186,202>>, <<48,147,179,83>>, <<166,163,180,36>>,
    <<5,54,208,186>>, <<147,6,215,205>>, <<41,87,222,84>>, <<191,103,217,35>>,
    <<46,122,102,179>>, <<184,74,97,196>>, <<2,27,104,93>>, <<148,43,111,42>>,
    <<55,190,11,180>>, <<161,142,12,195>>, <<27,223,5,90>>, <<141,239,2,45>>
>>

\* One round of the loop: crc = kCRC32Table[(crc ^ b) & 0xFF] ^ (crc >> 8).
CrcStep(crc, b) ==
    LET t == kCRC32Table[XorByte(crc[1], b) + 1]
    IN  <<XorByte(t[1], crc[2]), XorByte(t[2], crc[3]), XorByte(t[3], crc[4]), t[4]>>

\* The loop over data[lo..hi], left to right.  It is evaluated by halves, the
\* left half first, which keeps the evaluation's nesting logarithmic.
RECURSIVE CrcLoop(_, _, _, _)
CrcLoop(crc, data, lo, hi) ==
    IF lo > hi THEN crc
    ELSE IF lo = hi THEN CrcStep(crc, data[lo])
    ELSE LET mid == (lo + hi) \div 2
             left == CrcLoop(crc, data, lo, mid)
         IN  IF left[1] < 0 THEN left ELSE CrcLoop(left, data, mid + 1, hi)

\* crc ^= 0xFFFFFFFF; the loop; return crc ^ 0xFFFFFFFF.
CalculateCRC32(data, crc) ==
    XorWord(CrcLoop(XorWord(crc, AllOnes), data, 1, Len(data)), AllOnes)

\* Checksum over type + key + value, chained through the three calls.
CalculateChecksum(type, key, value) ==
    LET c1 == CalculateCRC32(<<type>>, <<0, 0, 0, 0>>)
        c2 == IF key # <<>> THEN CalculateCRC32(key, c1) ELSE c1
    IN  IF value # <<>> THEN CalculateCRC32(value, c2) ELSE c2

\* The four little-endian bytes of a 32-bit value below 2^31.
WriteFixed32(value) ==
    <<value % 256, (value \div 256) % 256, (value \div 65536) % 256,
      (value \div 16777216) % 256>>

\* The bytes AddRecord writes for one record.
EncodeRecord(type, key, value) ==
    <<type>> \o WriteFixed32(Len(key)) \o WriteFixed32(Len(value))
        \o key \o value \o CalculateChecksum(type, key, value)

\* The four bytes taken most significant first.
ReadFixed32BigEndian(buf) ==
    IF buf[1] >= 128 THEN Huge
    ELSE buf[4] + 256 * buf[3] + 65536 * buf[2] + 16777216 * buf[1]

\* A 32-bit little-endian value as a number; Huge when it is 2^31 or more.
ReadFixed32(buf) ==
    IF buf[4] >= 128 THEN Huge
    ELSE buf[1] + 256 * buf[2] + 65536 * buf[3] + 16777216 * buf[4]

VerifyChecksum(type, key, value, expected_checksum) ==
    CalculateChecksum(type, key, value) = expected_checksum

\* WALReader::ReadRecord on the file's bytes with the stream at offset pos:
\* [ret, type, key, value, status, pos].  A short read leaves the stream failed
\* and is reported at once, so the offset after it is never used.
ReadRecord(file, pos) ==
    LET none(st) == [ret |-> FALSE, type |-> 0, key |-> <<>>, value |-> <<>>,
                     status |-> st, pos |-> Len(file)]
    IN
    IF pos >= Len(file) THEN none("OK")                        \* peek() == EOF
    ELSE LET type == file[pos + 1] IN
    IF type = kEof THEN [none("OK") EXCEPT !.type = type]
    ELSE IF Len(file) - (pos + 1) < 4 THEN [none("IOError") EXCEPT !.type = type]
    ELSE LET key_length == ReadFixed32(Range(file, pos + 1, 4)) IN
    IF Len(file) - (pos + 5) < 4 THEN [none("IOError") EXCEPT !.type = type]
    ELSE LET value_length == ReadFixed32(Range(file, pos + 5, 4)) IN
    IF Len(file) - (pos + 9) < key_length THEN [none("IOError") EXCEPT !.type = type]
    ELSE LET key == Range(file, pos + 9, key_length)
             vpos == pos + 9 + key_length IN
    IF Len(file) - vpos < value_length
    THEN [none("IOError") EXCEPT !.type = type, !.key = key]
    ELSE LET value == Range(file, vpos, value_length)
             cpos == vpos + value_length IN
    IF Len(file) - cpos < 4
    THEN [none("IOError") EXCEPT !.type = type, !.key = key, !.value = value]
    ELSE IF ~VerifyChecksum(type, key, value, Range(file, cpos, 4))
    THEN [none("Corruption") EXCEPT !.type = type, !.key = key, !.value = value]
    ELSE [ret |-> TRUE, type |-> type, key |-> key, value |-> value,
          status |-> "OK", pos |-> cpos + 4]

\* A WALReader::Handler: its fail_at-th call returns status, the calls before
\* it return OK; fail_at 0: every call returns OK.
NoHandlerFailure == [fail_at |-> 0, status |-> "OK"]

\* The loop of WALReader::Replay from offset pos, delivered being the Put and
\* Delete records handed to the handler so far.
RECURSIVE ReplayFrom(_, _, _, _)
ReplayFrom(file, pos, delivered, handler) ==
    LET r == ReadRecord(file, pos)
        Handled(calls) ==
            IF Len(calls) = handler.fail_at
            THEN [status |-> handler.status, delivered |-> calls]
            ELSE ReplayFrom(file, r.pos, calls, handler)
    IN
    IF ~r.ret
    THEN [status |-> IF r.status # "OK" /\ r.status # "NotFound" THEN r.status ELSE "OK",
          delivered |-> delivered]
    ELSE IF r.type = kPut \/ r.type = kDelete
    THEN Handled(Append(delivered, [type |-> r.type, key |-> r.key, value |-> r.value]))
    ELSE IF r.type = kSync THEN ReplayFrom(file, r.pos, delivered, handler)
    ELSE IF r.type = kEof THEN [status |-> "OK", delivered |-> delivered]
    ELSE [status |-> "Corruption", delivered |-> delivered]

\* A replay that goes on after a handler's error.
ReplayHandledIgnoringErrors(file, handler) == ReplayFrom(file, 0, <<>>, NoHandlerFailure)

\* WALReader::Replay with the handler given: the status returned and the Put
\* and Delete records the handler was called with, in order.
ReplayHandled(file, handler) == ReplayFrom(file, 0, <<>>, handler)

\* A replay that takes a record cut short for the end of the log.
ReplayToDamage(file) ==
    LET Stopped(r) ==
            [status |-> IF r.status = "IOError" THEN "OK" ELSE r.status,
             delivered |-> r.delivered]
    IN  Stopped(ReplayFrom(file, 0, <<>>, NoHandlerFailure))

\* WALReader::Replay with a handler that never fails (DB's ReplayHandler): the
\* status returned and the Put/Delete records handed to the handler, in order.
Replay(file) == ReplayFrom(file, 0, <<>>, NoHandlerFailure)

\* ----------------------------------------------------- src/sstable/coding.h

EncodeFixed32(value) ==
    <<value % 256, (value \div 256) % 256, (value \div 65536) % 256,
      (value \div 16777216) % 256>>

\* Huge when the value is 2^31 or more.
DecodeFixed32(buf) ==
    IF buf[4] >= 128 THEN Huge
    ELSE buf[1] + 256 * buf[2] + 65536 * buf[3] + 16777216 * buf[4]

\* For values below 2^31 the four high bytes are zero.
EncodeFixed64(value) == EncodeFixed32(value) \o <<0, 0, 0, 0>>

\* Huge when the value is 2^31 or more.
DecodeFixed64(buf) ==
    IF buf[5] # 0 \/ buf[6] # 0 \/ buf[7] # 0 \/ buf[8] # 0 THEN Huge
    ELSE DecodeFixed32(SubSeq(buf, 1, 4))

RECURSIVE EncodeVarint32(_)
EncodeVarint32(value) ==
    IF value >= 128 THEN <<(value % 128) + 128>> \o EncodeVarint32(value \div 128)
    ELSE <<value>>

Pow2(n) == IF n = 0 THEN 1 ELSE IF n = 7 THEN 128 ELSE IF n = 14 THEN 16384
           ELSE IF n = 21 THEN 2097152 ELSE 268435456

\* (byte & 0x7F) << shift added into result, as a uint32; Huge when 2^31 or more.
VarintAccumulate(result, byte, shift) ==
    LET bits == IF shift = 28 THEN (byte % 128) % 16 ELSE byte % 128
    IN  IF result = Huge \/ (shift = 28 /\ bits >= 8) THEN Huge
        ELSE result + bits * Pow2(shift)

RECURSIVE DecodeVarintLoop(_, _, _, _, _)
DecodeVarintLoop(src, max_len, i, result, shift) ==
    IF ~(i < max_len /\ i < 5) THEN [len |-> -1, value |-> 0]      \* incomplete
    ELSE LET byte == src[i + 1]
             r == VarintAccumulate(result, byte, shift) IN
         IF byte < 128 THEN [len |-> i + 1, value |-> r]
         ELSE IF shift + 7 >= 32 THEN [len |-> -1, value |-> 0]    \* overflow
         ELSE DecodeVarintLoop(src, max_len, i + 1, r, shift + 7)

\* DecodeVarint32(src, max_len, &value): [len, value], len = -1 on error.
DecodeVarint32(src, max_len) == DecodeVarintLoop(src, max_len, 0, 0, 0)

\* ------------------------------------------------------ src/sstable/crc32.h

\* c >> 1 on a 32-bit word.
ShiftRight1(c) ==
    <<(c[1] \div 2) + 128 * (c[2] % 2), (c[2] \div 2) + 128 * (c[3] % 2),
      (c[3] \div 2) + 128 * (c[4] % 2), c[4] \div 2>>

\* The reflected polynomial 0xEDB88320.
kPolynomial == <<32, 131, 184, 237>>

RECURSIVE TableEntry(_, _)
TableEntry(c, k) ==
    IF k = 0 THEN c
    ELSE TableEntry(IF c[1] % 2 = 1 THEN XorWord(ShiftRight1(c), kPolynomial)
                    ELSE ShiftRight1(c), k - 1)

kTable == [i \in 1..256 |-> TableEntry(<<i - 1, 0, 0, 0>>, 8)]

CRC32Step(crc, b) ==
    LET t == kTable[XorByte(crc[1], b) + 1]
    IN  <<XorByte(t[1], crc[2]), XorByte(t[2], crc[3]), XorByte(t[3], crc[4]), t[4]>>

\* CRC32::Update over data[lo..hi], left to right, evaluated by halves.
RECURSIVE CRC32Update(_, _, _, _)
CRC32Update(crc, data, lo, hi) ==
    IF lo > hi THEN crc
    ELSE IF lo = hi THEN CRC32Step(crc, data[lo])
    ELSE LET mid == (lo + hi) \div 2
             left == CRC32Update(crc, data, lo, mid)
         IN  IF left[1] < 0 THEN left ELSE CRC32Update(left, data, mid + 1, hi)

\* CRC32::Calculate: a fresh CRC32 (0xFFFFFFFF), Update, Get (^ 0xFFFFFFFF).
CRC32Calculate(data) == XorWord(CRC32Update(AllOnes, data, 1, Len(data)), AllOnes)

\* -------------------------------------------- src/sstable/block_builder.cpp

BlockBuilder(restart_interval) ==
    [buffer |-> <<>>, restart_points |-> <<0>>, last_key |-> <<>>,
     restart_interval |-> restart_interval, counter |-> 0, finished |-> FALSE]

RECURSIVE SharedPrefixFrom(_, _, _)
SharedPrefixFrom(a, b, i) ==
    IF i >= Min(Len(a), Len(b)) THEN Min(Len(a), Len(b))
    ELSE IF a[i + 1] # b[i + 1] THEN i
    ELSE SharedPrefixFrom(a, b, i + 1)

SharedPrefixLength(a, b) == SharedPrefixFrom(a, b, 0)

\* BlockBuilder::Add.  The shared prefix is taken against last_key_ also for the
\* entry that starts a restart point: the code does not clear last_key_ there.
BlockBuilderAdd(b, key, value) ==
    IF b.finished THEN b
    ELSE
    LET restart == b.counter >= b.restart_interval
        points == IF restart THEN Append(b.restart_points, Len(b.buffer))
                  ELSE b.restart_points
        counter == IF restart THEN 0 ELSE b.counter
        shared_len == IF b.last_key # <<>> THEN SharedPrefixLength(b.last_key, key) ELSE 0
        non_shared_key_len == Len(key) - shared_len
    IN  [b EXCEPT !.buffer = b.buffer \o EncodeVarint32(shared_len)
                               \o EncodeVarint32(non_shared_key_len)
                               \o EncodeVarint32(Len(value))
                               \o Range(key, shared_len, non_shared_key_len)
                               \o value,
                  !.restart_points = points,
                  !.last_key = key,
                  !.counter = counter + 1]

RECURSIVE EncodeRestarts(_, _)
EncodeRestarts(points, i) ==
    IF i > Len(points) THEN <<>>
    ELSE EncodeFixed32(points[i]) \o EncodeRestarts(points, i + 1)

\* BlockBuilder::Finish: the block's bytes.
BlockBuilderFinish(b) ==
    IF b.finished THEN b.buffer
    ELSE b.buffer \o EncodeRestarts(b.restart_points, 1)
                  \o EncodeFixed32(Len(b.restart_points))

CurrentSizeEstimate(b) == Len(b.buffer) + Len(b.restart_points) * 4 + 4

BlockBuilderEmpty(b) == b.buffer = <<>>

\* --------------------------------------------- src/sstable/block_reader.cpp

\* BlockReader's constructor with ReadRestartPoints.  num_restarts * 4 is
\* computed in 32 bits; a count of 2^29 or more is kept out of range here by
\* being larger than any block.
BlockReader(block_data) ==
    LET base == [block_data |-> block_data, restart_points |-> <<>>, data_size |-> 0,
                 current_offset |-> 0, current_key |-> <<>>, current_value |-> <<>>,
                 previous_key |-> <<>>, valid |-> FALSE]
    IN
    IF Len(block_data) < 4 THEN base
    ELSE
    LET num_restarts == DecodeFixed32(Range(block_data, Len(block_data) - 4, 4)) IN
    IF num_restarts = 0 \/ num_restarts >= 536870912
       \/ Len(block_data) < 4 + num_restarts * 4
    THEN base
    ELSE
    LET restart_offset == Len(block_data) - 4 - num_restarts * 4
        points == [i \in 1..num_restarts |->
                      DecodeFixed32(Range(block_data, restart_offset + (i - 1) * 4, 4))]
        bad == {i \in 1..num_restarts : points[i] > restart_offset}
    IN  IF bad # {}
        THEN [base EXCEPT !.data_size = restart_offset,
                          !.restart_points =
                              SubSeq(points, 1, (CHOOSE i \in bad : \A j \in bad : i <= j) - 1)]
        ELSE [base EXCEPT !.restart_points = points, !.data_size = restart_offset,
                          !.valid = TRUE]

BlockReaderValid(r) == r.valid /\ r.current_key # <<>>

\* The key taken to be the bytes stored with the entry.
RebuildKeyUnshared(r, shared_len, non_shared_key) == non_shared_key

RebuildKey(r, shared_len, non_shared_key) ==
    IF shared_len = 0 THEN non_shared_key
    ELSE IF Len(r.previous_key) < shared_len THEN <<>>
    ELSE SubSeq(r.previous_key, 1, shared_len) \o non_shared_key

\* BlockReader::DecodeEntry: [r, status].  The three varints are decoded in
\* turn (shared_len, non_shared_key_len, value_len), each from where the one
\* before it ended.
DecodeEntry(r) ==
    LET fail(st) == [r |-> [r EXCEPT !.current_key = <<>>, !.current_value = <<>>],
                     status |-> st]
        data == SubSeq(r.block_data, r.current_offset + 1, r.data_size)
        remaining == r.data_size - r.current_offset
        Store(key, value, next_offset) ==
            [r |-> [r EXCEPT !.current_key = key, !.current_value = value,
                             !.previous_key = key,
                             !.current_offset = next_offset],
             status |-> "OK"]
        ReadKeyValue(shared_len, non_shared_key_len, value_len, off3) ==
            IF non_shared_key_len > remaining - off3
               \/ value_len > remaining - off3 - non_shared_key_len
            THEN fail("Corruption")
            ELSE Store(RebuildKey(r, shared_len, Range(data, off3, non_shared_key_len)),
                       Range(data, off3 + non_shared_key_len, value_len),
                       r.current_offset + off3 + non_shared_key_len + value_len)
        AfterValueLen(v1, v2, v3) ==
            IF v3.len < 0 THEN fail("Corruption")
            ELSE ReadKeyValue(v1.value, v2.value, v3.value, v1.len + v2.len + v3.len)
        AfterKeyLen(v1, v2) ==
            IF v2.len < 0 THEN fail("Corruption")
            ELSE AfterValueLen(v1, v2,
                     DecodeVarint32(Range(data, v1.len + v2.len,
                                          remaining - (v1.len + v2.len)),
                                    remaining - (v1.len + v2.len)))
        AfterSharedLen(v1) ==
            IF v1.len < 0 THEN fail("Corruption")
            ELSE AfterKeyLen(v1,
                     DecodeVarint32(Range(data, v1.len, remaining - v1.len),
                                    remaining - v1.len))
    IN  IF r.current_offset >= r.data_size THEN fail("NotFound")
        ELSE AfterSharedLen(DecodeVarint32(data, remaining))

BlockReaderNext(r) ==
    IF r.current_offset >= r.data_size
    THEN [r |-> [r EXCEPT !.current_key = <<>>, !.current_value = <<>>],
          status |-> "NotFound"]
    ELSE DecodeEntry(r)

BlockReaderSeekToFirst(r) ==
    IF ~r.valid \/ r.restart_points = <<>> THEN [r |-> r, status |-> "Corruption"]
    ELSE DecodeEntry([r EXCEPT !.current_offset = r.restart_points[1],
                               !.previous_key = <<>>])

\* The binary search of FindRestartPoint: [r, result].  The offset and previous
\* key are restored after a probe, the decoded current key and value are not;
\* a failed probe leaves the loop with nothing restored.
RECURSIVE FindRestartLoop(_, _, _, _, _)
FindRestartLoop(r, target_key, left, right, result) ==
    LET Probed(mid, d, restored) ==
            IF d.status = "OK" /\ BlockReaderValid(d.r)
            THEN IF StrGreaterEq(d.r.current_key, target_key)
                 THEN FindRestartLoop(restored, target_key, left, mid - 1, mid)
                 ELSE FindRestartLoop(restored, target_key, mid + 1, right, result)
            ELSE [r |-> d.r, result |-> result]
        Restore(mid, d) ==
            Probed(mid, d, [d.r EXCEPT !.current_offset = r.current_offset,
                                       !.previous_key = r.previous_key])
        Probe(mid) ==
            Restore(mid, DecodeEntry([r EXCEPT !.current_offset = r.restart_points[mid + 1],
                                               !.previous_key = <<>>]))
    IN  IF left > right THEN [r |-> r, result |-> result]
        ELSE Probe((left + right) \div 2)

FindRestartPoint(r, target_key) ==
    LET Found(f) ==
            [r |-> f.r,
             result |-> IF f.result >= 0 THEN f.result ELSE Len(r.restart_points) - 1]
    IN  Found(FindRestartLoop(r, target_key, 0, Len(r.restart_points) - 1, -1))

RECURSIVE SeekLoop(_, _)
SeekLoop(d, target_key) ==
    IF d.status = "OK" /\ BlockReaderValid(d.r)
    THEN IF StrGreaterEq(d.r.current_key, target_key) THEN [r |-> d.r, status |-> "OK"]
         ELSE SeekLoop(BlockReaderNext(d.r), target_key)
    ELSE d

\* BlockReader::Seek: [r, status].
BlockReaderSeek(r, target_key) ==
    LET SeekFrom(f, restart_idx) ==
            SeekLoop(DecodeEntry([f.r EXCEPT !.current_offset =
                                                 f.r.restart_points[restart_idx + 1],
                                             !.previous_key = <<>>]),
                     target_key)
        Located(f) == SeekFrom(f, IF f.result < 0 THEN 0 ELSE f.result)
    IN  IF ~r.valid \/ r.restart_points = <<>> THEN [r |-> r, status |-> "Corruption"]
        ELSE Located(FindRestartPoint(r, target_key))

\* ------------------------------------------ src/sstable/sstable_builder.cpp

kBlockSize == 4096
kEncodedLength == 48
kDataRestartInterval == 16
kIndexRestartInterval == 1

\* 0xdb4775248b80fb57 as EncodeFixed64 writes it.
kMagicNumber == <<87, 251, 128, 139, 36, 117, 71, 219>>

BlockHandleEncodeTo(handle) == EncodeFixed64(handle.offset) \o EncodeFixed64(handle.size)

BlockHandleDecodeFrom(src) ==
    [offset |-> DecodeFixed64(SubSeq(src, 1, 8)), size |-> DecodeFixed64(SubSeq(src, 9, 16))]

FooterEncodeTo(index_handle, meta_handle) ==
    BlockHandleEncodeTo(index_handle) \o BlockHandleEncodeTo(meta_handle)
        \o <<0, 0, 0, 0, 0, 0, 0, 0>> \o kMagicNumber

\* Footer::DecodeFrom: [status, index_handle].
FooterDecodeFrom(src) ==
    [status |-> IF SubSeq(src, 41, 48) # kMagicNumber THEN "Corruption" ELSE "OK",
     index_handle |-> BlockHandleDecodeFrom(SubSeq(src, 1, 16))]

\* A builder on a file the constructor opened (is_open) or failed to open;
\* io_ok is whether writes to the stream succeed.
SSTableBuilder(is_open, io_ok) ==
    [file |-> <<>>, is_open |-> is_open, io_ok |-> io_ok,
     data_block_builder |-> BlockBuilder(kDataRestartInterval),
     index_block_builder |-> BlockBuilder(kIndexRestartInterval),
     last_key |-> <<>>, num_entries |-> 0, finished |-> FALSE]

\* SSTableBuilder::WriteBlock: [b, handle, status].  A write to a stream that
\* is not good writes nothing.
WriteBlock(b, block_data) ==
    LET handle == [offset |-> Len(b.file), size |-> Len(block_data)] IN
    IF ~b.is_open THEN [b |-> b, handle |-> handle, status |-> "IOError"]
    ELSE IF ~b.io_ok THEN [b |-> b, handle |-> handle, status |-> "IOError"]
    ELSE [b |-> [b EXCEPT !.file = b.file \o block_data \o <<0>>
                                       \o CRC32Calculate(block_data)],
          handle |-> handle, status |-> "OK"]

\* A FlushDataBlock whose index entry covers the block's tag and CRC too.
FlushDataBlockWithTrailer(b) ==
    LET Written(last_key, block_data, w) ==
            IF w.status # "OK"
            THEN [b |-> [w.b EXCEPT !.data_block_builder.buffer = block_data,
                                    !.data_block_builder.finished = TRUE],
                  status |-> w.status]
            ELSE [b |-> [w.b EXCEPT !.index_block_builder =
                                        BlockBuilderAdd(w.b.index_block_builder, last_key,
                                                        BlockHandleEncodeTo(
                                                            [w.handle EXCEPT !.size = @ + 5])),
                                    !.data_block_builder = BlockBuilder(kDataRestartInterval),
                                    !.last_key = <<>>],
                  status |-> "OK"]
        Finished(last_key, block_data) ==
            Written(last_key, block_data, WriteBlock(b, block_data))
    IN  IF BlockBuilderEmpty(b.data_block_builder) THEN [b |-> b, status |-> "OK"]
        ELSE Finished(b.data_block_builder.last_key,
                      BlockBuilderFinish(b.data_block_builder))

\* SSTableBuilder::FlushDataBlock: [b, status].
FlushDataBlock(b) ==
    LET Written(last_key, block_data, w) ==
            IF w.status # "OK"
            THEN [b |-> [w.b EXCEPT !.data_block_builder.buffer = block_data,
                                    !.data_block_builder.finished = TRUE],
                  status |-> w.status]
            ELSE [b |-> [w.b EXCEPT !.index_block_builder =
                                        BlockBuilderAdd(w.b.index_block_builder, last_key,
                                                        BlockHandleEncodeTo(w.handle)),
                                    !.data_block_builder = BlockBuilder(kDataRestartInterval),
                                    !.last_key = <<>>],
                  status |-> "OK"]
        Finished(last_key, block_data) ==
            Written(last_key, block_data, WriteBlock(b, block_data))
    IN  IF BlockBuilderEmpty(b.data_block_builder) THEN [b |-> b, status |-> "OK"]
        ELSE Finished(b.data_block_builder.last_key,
                      BlockBuilderFinish(b.data_block_builder))

\* SSTableBuilder::Add: [b, status].
SSTableBuilderAdd(b, key, value) ==
    LET Flushed(f) ==
            IF f.status # "OK" THEN f
            ELSE [b |-> [f.b EXCEPT !.data_block_builder =
                                        BlockBuilderAdd(f.b.data_block_builder, key, value),
                                    !.last_key = key,
                                    !.num_entries = f.b.num_entries + 1],
                  status |-> "OK"]
    IN  IF b.finished THEN [b |-> b, status |-> "InvalidArgument"]
        ELSE IF ~b.is_open THEN [b |-> b, status |-> "IOError"]
        ELSE Flushed(IF CurrentSizeEstimate(b.data_block_builder) >= kBlockSize
                        /\ ~BlockBuilderEmpty(b.data_block_builder)
                     THEN FlushDataBlock(b)
                     ELSE [b |-> b, status |-> "OK"])

\* SSTableBuilder::Finish: [b, status].
SSTableBuilderFinish(b) ==
    LET IndexWritten(w) ==
            IF w.status # "OK" THEN [b |-> w.b, status |-> w.status]
            ELSE [b |-> [w.b EXCEPT !.file = w.b.file
                                        \o FooterEncodeTo(w.handle,
                                                          [offset |-> 0, size |-> 0]),
                                    !.is_open = FALSE,
                                    !.finished = TRUE],
                  status |-> "OK"]
        IndexFinished(f, index_block_data) ==
            IndexWritten(WriteBlock([f.b EXCEPT !.index_block_builder.buffer =
                                                    index_block_data,
                                                !.index_block_builder.finished = TRUE],
                                    index_block_data))
        Flushed(f) ==
            IF f.status # "OK" THEN f
            ELSE IndexFinished(f, BlockBuilderFinish(f.b.index_block_builder))
    IN  IF b.finished THEN [b |-> b, status |-> "OK"]
        ELSE IF ~b.is_open THEN [b |-> b, status |-> "IOError"]
        ELSE Flushed(FlushDataBlock(b))

\* ------------------------------------------- src/sstable/sstable_reader.cpp

\* A block read without comparing its checksum.
ReadBlockUnverified(file, handle) ==
    IF handle.offset > Len(file) \/ handle.size > Len(file) - handle.offset
    THEN [status |-> "IOError", block_data |-> <<>>]
    ELSE [status |-> "OK", block_data |-> Range(file, handle.offset, handle.size)]

\* SSTableReader::ReadBlock on the file's bytes: [status, block_data].
ReadBlock(file, handle) ==
    IF handle.offset > Len(file) \/ handle.size > Len(file) - handle.offset
    THEN [status |-> "IOError", block_data |-> <<>>]
    ELSE
    LET block_data == Range(file, handle.offset, handle.size)
        tpos == handle.offset + handle.size
    IN  IF Len(file) - tpos < 1 THEN [status |-> "IOError", block_data |-> block_data]
        ELSE IF file[tpos + 1] # 0 THEN [status |-> "NotSupported", block_data |-> block_data]
        ELSE IF Len(file) - (tpos + 1) < 4
        THEN [status |-> "IOError", block_data |-> block_data]
        ELSE IF Range(file, tpos + 1, 4) # CRC32Calculate(block_data)
        THEN [status |-> "Corruption", block_data |-> block_data]
        ELSE [status |-> "OK", block_data |-> block_data]

\* SSTableReader::ReadFooter: [status, index_handle].
ReadFooter(file) ==
    IF Len(file) < kEncodedLength
    THEN [status |-> "Corruption", index_handle |-> [offset |-> 0, size |-> 0]]
    ELSE FooterDecodeFrom(Range(file, Len(file) - kEncodedLength, kEncodedLength))

\* SSTableReader::Open on a path that holds the bytes file, or no file (exists
\* FALSE): [status, valid, index_block_data].
SSTableReaderOpen(exists, file) ==
    LET IndexRead(ib) ==
            IF ib.status # "OK"
            THEN [status |-> ib.status, valid |-> FALSE, index_block_data |-> ib.block_data]
            ELSE [status |-> "OK", valid |-> TRUE, index_block_data |-> ib.block_data]
        FooterRead(ft) ==
            IF ft.status # "OK"
            THEN [status |-> ft.status, valid |-> FALSE, index_block_data |-> <<>>]
            ELSE IndexRead(ReadBlock(file, ft.index_handle))
    IN  IF ~exists THEN [status |-> "NotFound", valid |-> FALSE, index_block_data |-> <<>>]
        ELSE FooterRead(ReadFooter(file))

RECURSIVE FindDataBlockLoop(_, _, _)
FindDataBlockLoop(r, key, current_handle_encoding) ==
    LET none == [offset |-> 0, size |-> 0]
        Advanced(n, enc) ==
            IF n.status # "OK" /\ n.status # "NotFound"
            THEN [status |-> n.status, handle |-> none]
            ELSE FindDataBlockLoop(n.r, key, enc)
    IN  IF ~BlockReaderValid(r)
        THEN IF current_handle_encoding # <<>>
             THEN IF Len(current_handle_encoding) # 16
                  THEN [status |-> "Corruption", handle |-> none]
                  ELSE [status |-> "OK",
                        handle |-> BlockHandleDecodeFrom(current_handle_encoding)]
             ELSE [status |-> "Corruption", handle |-> none]
        ELSE IF StrGreaterEq(r.current_key, key)
        THEN IF Len(r.current_value) # 16
             THEN [status |-> "Corruption", handle |-> none]
             ELSE [status |-> "OK", handle |-> BlockHandleDecodeFrom(r.current_value)]
        ELSE Advanced(BlockReaderNext(r), r.current_value)

\* SSTableReader::FindDataBlock: [status, handle].
FindDataBlock(index_block_data, key) ==
    LET none == [offset |-> 0, size |-> 0]
        AtFirst(f) ==
            IF f.status # "OK" THEN [status |-> f.status, handle |-> none]
            ELSE IF ~BlockReaderValid(f.r) THEN [status |-> "Corruption", handle |-> none]
            ELSE FindDataBlockLoop(f.r, key, <<>>)
        Constructed(index_reader) ==
            IF ~index_reader.valid THEN [status |-> "Corruption", handle |-> none]
            ELSE AtFirst(BlockReaderSeekToFirst(index_reader))
    IN  Constructed(BlockReader(index_block_data))

\* Whether a stored value is the deletion marker: one 0x00 byte.
IsDeletionMarker(val) == Len(val) = 1 /\ val[1] = 0

\* A Get that stores the value it found before it looks whether the value is
\* the deletion marker.
SSTableReaderGetStoringFirst(reader, file, key) ==
    LET nothing(st) == [status |-> st, assigned |-> FALSE, value |-> <<>>]
        Sought(sk) ==
            IF sk.status # "OK" THEN nothing(sk.status)
            ELSE IF ~BlockReaderValid(sk.r) THEN nothing("NotFound")
            ELSE IF sk.r.current_key # key THEN nothing("NotFound")
            ELSE IF IsDeletionMarker(sk.r.current_value)
            THEN [status |-> "NotFound", assigned |-> TRUE, value |-> sk.r.current_value]
            ELSE [status |-> "OK", assigned |-> TRUE, value |-> sk.r.current_value]
        Constructed(block_reader) ==
            IF ~block_reader.valid THEN nothing("Corruption")
            ELSE Sought(BlockReaderSeek(block_reader, key))
        DataRead(rb) ==
            IF rb.status # "OK" THEN nothing(rb.status)
            ELSE Constructed(BlockReader(rb.block_data))
        Located(fd) ==
            IF fd.status # "OK" THEN nothing(fd.status)
            ELSE DataRead(ReadBlock(file, fd.handle))
    IN  IF ~reader.valid THEN nothing("IOError")
        ELSE Located(FindDataBlock(reader.index_block_data, key))

\* SSTableReader::Get on an opened reader: [status, value]; value is what the
\* call stores in *value, and is <<>> with assigned FALSE when it stores nothing.
SSTableReaderGet(reader, file, key) ==
    LET nothing(st) == [status |-> st, assigned |-> FALSE, value |-> <<>>]
        Sought(sk) ==
            IF sk.status # "OK" THEN nothing(sk.status)
            ELSE IF ~BlockReaderValid(sk.r) THEN nothing("NotFound")
            ELSE IF sk.r.current_key # key THEN nothing("NotFound")
            ELSE IF IsDeletionMarker(sk.r.current_value) THEN nothing("NotFound")
            ELSE [status |-> "OK", assigned |-> TRUE, value |-> sk.r.current_value]
        Constructed(block_reader) ==
            IF ~block_reader.valid THEN nothing("Corruption")
            ELSE Sought(BlockReaderSeek(block_reader, key))
        DataRead(rb) ==
            IF rb.status # "OK" THEN nothing(rb.status)
            ELSE Constructed(BlockReader(rb.block_data))
        Located(fd) ==
            IF fd.status # "OK" THEN nothing(fd.status)
            ELSE DataRead(ReadBlock(file, fd.handle))
    IN  IF ~reader.valid THEN nothing("IOError")
        ELSE Located(FindDataBlock(reader.index_block_data, key))

\* ------------------------------------------------ src/memtable/memtable.cpp

EmptyTable == [k \in {} |-> <<>>]

\* MemTable::MemTable: an empty std::map and approximate_size_ 0.
MemTable == [table |-> EmptyTable, approximate_size |-> 0]

TableWith(table, key, value) ==
    [k \in DOMAIN table \cup {key} |-> IF k = key THEN value ELSE table[k]]

MemTablePut(m, key, value) ==
    IF key \in DOMAIN m.table
    THEN [table |-> TableWith(m.table, key, value),
          approximate_size |-> (m.approximate_size - (Len(key) + Len(m.table[key])))
                                   + (Len(key) + Len(value))]
    ELSE [table |-> TableWith(m.table, key, value),
          approximate_size |-> m.approximate_size + Len(key) + Len(value)]

\* MemTable::Get: [found, value]; value is what the call stores in *value.
MemTableGet(m, key) ==
    IF key \in DOMAIN m.table
    THEN IF Len(m.table[key]) = 1 /\ m.table[key][1] = 0
         THEN [found |-> FALSE, value |-> <<>>]
         ELSE [found |-> TRUE, value |-> m.table[key]]
    ELSE [found |-> FALSE, value |-> <<>>]

\* MemTableIterator::MemTableIterator: iter_ is table_.end().  An iterator is
\* at the end of the map (at_end) or at the entry with key.
MemTableIterator == [at_end |-> TRUE, key |-> <<>>]

MemTableIteratorAt(key) == [at_end |-> FALSE, key |-> key]

\* table_.begin() and --table_.end() of a map that is not empty.
FirstKey(table) == CHOOSE k \in DOMAIN table : \A j \in DOMAIN table : j = k \/ StrLess(k, j)

LastKey(table) == CHOOSE k \in DOMAIN table : \A j \in DOMAIN table : j = k \/ StrLess(j, k)

\* The keys of the map after key (++iter_) and before it (--iter_).
KeysAfter(table, key) == {j \in DOMAIN table : StrLess(key, j)}

KeysBefore(table, key) == {j \in DOMAIN table : StrLess(j, key)}

\* The least and the greatest of a set of keys that is not empty.
LeastKey(ks) == CHOOSE k \in ks : \A j \in ks : j = k \/ StrLess(k, j)

GreatestKey(ks) == CHOOSE k \in ks : \A j \in ks : j = k \/ StrLess(j, k)

MemTableIteratorValid(it) == ~it.at_end

MemTableIteratorSeekToFirst(table) ==
    IF DOMAIN table = {} THEN MemTableIterator ELSE MemTableIteratorAt(FirstKey(table))

MemTableIteratorSeekToLast(table) ==
    IF DOMAIN table = {} THEN MemTableIterator ELSE MemTableIteratorAt(LastKey(table))

\* A Seek that stops at the first key after target, target itself passed over.
MemTableIteratorSeekUpperBound(table, target) ==
    IF KeysAfter(table, target) = {} THEN MemTableIterator
    ELSE MemTableIteratorAt(LeastKey(KeysAfter(table, target)))

\* MemTableIterator::Seek: table_.lower_bound(target).
MemTableIteratorSeek(table, target) ==
    LET ge == KeysAfter(table, target) \cup (DOMAIN table \cap {target})
    IN  IF ge = {} THEN MemTableIterator ELSE MemTableIteratorAt(LeastKey(ge))

MemTableIteratorNext(it, table) ==
    IF it.at_end THEN it
    ELSE IF KeysAfter(table, it.key) = {} THEN MemTableIterator
    ELSE MemTableIteratorAt(LeastKey(KeysAfter(table, it.key)))

\* A Prev that leaves the map at its first entry: the iterator is at the end.
MemTableIteratorPrevLeaving(it, table) ==
    IF it.at_end
    THEN IF DOMAIN table = {} THEN it ELSE MemTableIteratorAt(LastKey(table))
    ELSE IF KeysBefore(table, it.key) = {} THEN MemTableIterator
    ELSE MemTableIteratorAt(GreatestKey(KeysBefore(table, it.key)))

\* MemTableIterator::Prev: --iter_ unless iter_ is table_.begin(); from
\* table_.end() of a map that is not empty that is the last entry.
MemTableIteratorPrev(it, table) ==
    IF it.at_end
    THEN IF DOMAIN table = {} THEN it ELSE MemTableIteratorAt(LastKey(table))
    ELSE IF KeysBefore(table, it.key) = {} THEN it
    ELSE MemTableIteratorAt(GreatestKey(KeysBefore(table, it.key)))

\* MemTableIterator::key and value.
MemTableIteratorKey(it) == IF it.at_end THEN <<>> ELSE it.key

MemTableIteratorValue(it, table) == IF it.at_end THEN <<>> ELSE table[it.key]

\* MemTable::Delete that forgets the marker's byte when the key is new.
MemTableDeleteUncounted(m, key) ==
    IF key \in DOMAIN m.table
    THEN [table |-> TableWith(m.table, key, <<0>>),
          approximate_size |-> (m.approximate_size - Len(m.table[key])) + 1]
    ELSE [table |-> TableWith(m.table, key, <<0>>),
          approximate_size |-> m.approximate_size + Len(key)]

MemTableDelete(m, key) ==
    IF key \in DOMAIN m.table
    THEN [table |-> TableWith(m.table, key, <<0>>),
          approximate_size |-> (m.approximate_size - Len(m.table[key])) + 1]
    ELSE [table |-> TableWith(m.table, key, <<0>>),
          approximate_size |-> m.approximate_size + Len(key) + 1]

MemTableEmpty(m) == DOMAIN m.table = {}

\* What a MemTableIterator yields from SeekToFirst by Next to the end: the
\* std::map's entries in ascending key order.
MemTableScan(m) ==
    LET ks == DOMAIN m.table
        keyAt(i) == CHOOSE k \in ks : Cardinality({j \in ks : StrLess(j, k)}) = i - 1
    IN  [i \in 1..Cardinality(ks) |-> [key |-> keyAt(i), value |-> m.table[keyAt(i)]]]

\* ------------------------------------------------------ src/write_batch.cpp

\* WriteBatch::Rep: the puts and the deletes, each in the order added.
WriteBatchRep == [puts |-> <<>>, deletes |-> <<>>]

WriteBatchPut(rep, key, value) ==
    [rep EXCEPT !.puts = Append(rep.puts, [key |-> key, value |-> value])]

WriteBatchDelete(rep, key) == [rep EXCEPT !.deletes = Append(rep.deletes, key)]

WriteBatchCount(rep) == Len(rep.puts) + Len(rep.deletes)

\* The batch a caller builds by the calls ops (Put and Delete, in this order).
RECURSIVE WriteBatchOf(_, _)
WriteBatchOf(ops, n) ==
    IF n = 0 THEN WriteBatchRep
    ELSE IF ops[n].type = kPut
    THEN WriteBatchPut(WriteBatchOf(ops, n - 1), ops[n].key, ops[n].value)
    ELSE WriteBatchDelete(WriteBatchOf(ops, n - 1), ops[n].key)

\* WriteBatch::Iterate: the handler calls it makes, in order.
Iterate(rep) ==
    [i \in 1..Len(rep.puts) |->
        [type |-> kPut, key |-> rep.puts[i].key, value |-> rep.puts[i].value]]
    \o [i \in 1..Len(rep.deletes) |->
        [type |-> kDelete, key |-> rep.deletes[i], value |-> <<>>]]

\* ------------------------------------------------- src/wal/wal.cpp (writer)

\* A WALWriter: whether its ofstream is open, and whether a write or flush on
\* it has failed (the stream's fail state, which nothing clears).
WALWriter == [is_open |-> TRUE, failed |-> FALSE]

NoIoFault == [append_at |-> 0, cut |-> 0, sync |-> FALSE, flush |-> "none"]

\* WALWriter::AddRecord on the log's bytes: [w, data, status].  cut < 0: the
\* writes succeed.  cut >= 0: the stream fails during this call after cut bytes
\* of the record went out.  On a stream that already failed nothing is written.
AddRecord(w, data, type, key, value, cut) ==
    IF ~w.is_open THEN [w |-> w, data |-> data, status |-> "IOError"]
    ELSE IF w.failed THEN [w |-> w, data |-> data, status |-> "IOError"]
    ELSE IF cut >= 0
    THEN [w |-> [w EXCEPT !.failed = TRUE],
          data |-> data \o SubSeq(EncodeRecord(type, key, value), 1, cut),
          status |-> "IOError"]
    ELSE [w |-> w, data |-> data \o EncodeRecord(type, key, value), status |-> "OK"]

\* WALWriter::Sync: [w, status]; fault: the flush fails.
Sync(w, fault) ==
    IF ~w.is_open THEN [w |-> w, status |-> "IOError"]
    ELSE IF w.failed \/ fault THEN [w |-> [w EXCEPT !.failed = TRUE], status |-> "IOError"]
    ELSE [w |-> w, status |-> "OK"]

\* WALWriter::Close.
WALWriterClose(w) == [w EXCEPT !.is_open = FALSE]

\* ------------------------------------------------------- src/core/db.cpp

\* Options::Options.
DefaultOptions ==
    [create_if_missing |-> FALSE, error_if_exists |-> FALSE,
     write_buffer_size |-> 4 * 1024 * 1024]

\* DB::DB: no WAL writer, next_file_number_ 1, an empty MemTable.  open tells
\* whether a caller holds the object; options_ keeps the one field the DB
\* reads after Open.
NewDB ==
    [open |-> FALSE, options_ |-> [write_buffer_size |-> DefaultOptions.write_buffer_size],
     memtable_ |-> MemTable,
     imm_memtable_ |-> <<>>, wal_writer_ |-> [is_open |-> FALSE, failed |-> FALSE],
     sstable_files_ |-> <<>>, next_file_number_ |-> 1]

\* The directory: whether it exists, the bytes of <name>/LOG, and the bytes of
\* each <name>/0/<n>.sst that exists, by n.
NoDirectory == [dir_exists |-> FALSE, log_exists |-> FALSE, log |-> <<>>,
                sst |-> [n \in {} |-> <<>>]]

\* The builder.Add loop of FlushMemTable over entries[lo..hi], stopping at the
\* first error: [b, status].  Evaluated by halves, the left half first.
RECURSIVE AddEntries(_, _, _, _)
AddEntries(b, entries, lo, hi) ==
    LET Right(left, mid) ==
            IF left.status # "OK" THEN left
            ELSE AddEntries(left.b, entries, mid + 1, hi)
        Halves(mid) == Right(AddEntries(b, entries, lo, mid), mid)
    IN  IF lo > hi THEN [b |-> b, status |-> "OK"]
        ELSE IF lo = hi THEN SSTableBuilderAdd(b, entries[lo].key, entries[lo].value)
        ELSE Halves((lo + hi) \div 2)

\* FlushMemTable resetting imm_memtable_ on every return, also when Add or
\* Finish failed and no file was added to sstable_files_.
FlushMemTableReleasing(db, fs, flush) ==
    LET n == db.next_file_number_
        db1 == [db EXCEPT !.next_file_number_ = n + 1, !.imm_memtable_ = <<>>]
        created == IF flush = "open" THEN fs
                   ELSE [fs EXCEPT !.sst = [m \in DOMAIN fs.sst \cup {n} |->
                                               IF m = n THEN <<>> ELSE fs.sst[m]]]
        Listed(fin, written) ==
            IF fin.status # "OK" THEN [db |-> db1, fs |-> written, status |-> fin.status]
            ELSE [db |-> [db1 EXCEPT !.sstable_files_ = Append(db.sstable_files_, n)],
                  fs |-> written, status |-> "OK"]
        Finished(fin) == Listed(fin, [created EXCEPT !.sst[n] = fin.b.file])
        Added(added) ==
            IF added.status # "OK"
            THEN [db |-> db1, fs |-> created, status |-> added.status]
            ELSE Finished(SSTableBuilderFinish(added.b))
        Scanned(entries) ==
            Added(AddEntries(SSTableBuilder(flush # "open", flush # "write"),
                             entries, 1, Len(entries)))
    IN  IF db.imm_memtable_ = <<>> \/ MemTableEmpty(db.imm_memtable_[1])
        THEN [db |-> db, fs |-> fs, status |-> "OK"]
        ELSE Scanned(MemTableScan(db.imm_memtable_[1]))

\* DB::FlushMemTable: [db, fs, status].  flush: "none", or "open" (the
\* builder's file cannot be opened), or "write" (its writes fail).
FlushMemTable(db, fs, flush) ==
    LET n == db.next_file_number_
        db1 == [db EXCEPT !.next_file_number_ = n + 1]
        \* the constructor's open(..., ios::out) creates or empties the file
        created == IF flush = "open" THEN fs
                   ELSE [fs EXCEPT !.sst = [m \in DOMAIN fs.sst \cup {n} |->
                                               IF m = n THEN <<>> ELSE fs.sst[m]]]
        Listed(fin, written) ==
            IF fin.status # "OK" THEN [db |-> db1, fs |-> written, status |-> fin.status]
            ELSE [db |-> [db1 EXCEPT !.sstable_files_ = Append(db.sstable_files_, n),
                                     !.imm_memtable_ = <<>>],
                  fs |-> written, status |-> "OK"]
        Finished(fin) == Listed(fin, [created EXCEPT !.sst[n] = fin.b.file])
        Added(added) ==
            IF added.status # "OK"
            THEN [db |-> db1, fs |-> created, status |-> added.status]
            ELSE Finished(SSTableBuilderFinish(added.b))
        Scanned(entries) ==
            Added(AddEntries(SSTableBuilder(flush # "open", flush # "write"),
                             entries, 1, Len(entries)))
    IN  IF db.imm_memtable_ = <<>> \/ MemTableEmpty(db.imm_memtable_[1])
        THEN [db |-> db, fs |-> fs, status |-> "OK"]
        ELSE Scanned(MemTableScan(db.imm_memtable_[1]))

\* Whether MaybeScheduleFlush seals the live MemTable.
FlushDue(db) ==
    LET threshold == IF db.options_.write_buffer_size > 0
                     THEN db.options_.write_buffer_size
                     ELSE 4 * 1024 * 1024
    IN  db.memtable_.approximate_size > threshold /\ db.imm_memtable_ = <<>>

\* DB::MaybeScheduleFlush: [db, fs, status].
MaybeScheduleFlush(db, fs, flush) ==
    IF FlushDue(db)
    THEN FlushMemTable([db EXCEPT !.imm_memtable_ = <<db.memtable_>>,
                                  !.memtable_ = MemTable], fs, flush)
    ELSE [db |-> db, fs |-> fs, status |-> "OK"]

\* DB::EnsureWALOpen: [db, fs, status].
EnsureWALOpen(db, fs) ==
    IF ~db.wal_writer_.is_open
    THEN IF fs.dir_exists
         THEN [db |-> [db EXCEPT !.wal_writer_ = WALWriter],
               fs |-> [fs EXCEPT !.log_exists = TRUE], status |-> "OK"]
         ELSE [db |-> db, fs |-> fs, status |-> "IOError"]
    ELSE [db |-> db, fs |-> fs, status |-> "OK"]

\* PutOrDelete with the MemTable updated first, and the WAL record, the Sync
\* and MaybeScheduleFlush after it.
PutOrDeleteMemTableFirst(db, fs, type, key, value, sync, io) ==
    LET Synced(db0, fs1, sy) ==
            IF sy.status # "OK"
            THEN [db |-> [db0 EXCEPT !.wal_writer_ = sy.w], fs |-> fs1, status |-> sy.status]
            ELSE MaybeScheduleFlush([db0 EXCEPT !.wal_writer_ = sy.w], fs1, io.flush)
        Logged(db0, a) ==
            IF a.status # "OK"
            THEN [db |-> [db0 EXCEPT !.wal_writer_ = a.w],
                  fs |-> [fs EXCEPT !.log = a.data], status |-> a.status]
            ELSE Synced(db0, [fs EXCEPT !.log = a.data],
                        IF sync THEN Sync(a.w, io.sync) ELSE [w |-> a.w, status |-> "OK"])
        Updated(db0) ==
            Logged(db0, AddRecord(db0.wal_writer_, fs.log, type, key, value,
                                  IF io.append_at = 1 THEN io.cut ELSE -1))
    IN  Updated([db EXCEPT !.memtable_ =
                               IF type = kPut THEN MemTablePut(db.memtable_, key, value)
                               ELSE MemTableDelete(db.memtable_, key)])

\* The body of DB::Put and DB::Delete after EnsureWALOpen: the WAL record, the
\* Sync when asked for, the MemTable update, MaybeScheduleFlush.
PutOrDelete(db, fs, type, key, value, sync, io) ==
    LET Synced(fs1, sy) ==
            IF sy.status # "OK"
            THEN [db |-> [db EXCEPT !.wal_writer_ = sy.w], fs |-> fs1, status |-> sy.status]
            ELSE MaybeScheduleFlush(
                     [db EXCEPT !.wal_writer_ = sy.w,
                                !.memtable_ =
                                    IF type = kPut THEN MemTablePut(db.memtable_, key, value)
                                    ELSE MemTableDelete(db.memtable_, key)],
                     fs1, io.flush)
        Logged(a) ==
            IF a.status # "OK"
            THEN [db |-> [db EXCEPT !.wal_writer_ = a.w],
                  fs |-> [fs EXCEPT !.log = a.data], status |-> a.status]
            ELSE Synced([fs EXCEPT !.log = a.data],
                        IF sync THEN Sync(a.w, io.sync) ELSE [w |-> a.w, status |-> "OK"])
    IN  Logged(AddRecord(db.wal_writer_, fs.log, type, key, value,
                         IF io.append_at = 1 THEN io.cut ELSE -1))

\* DB::Put: [db, fs, status].
DBPut(db, fs, key, value, sync, io) ==
    LET Ensured(e) ==
            IF e.status # "OK" THEN e
            ELSE PutOrDelete(e.db, e.fs, kPut, key, value, sync, io)
    IN  Ensured(EnsureWALOpen(db, fs))

\* DB::Delete: [db, fs, status].
DBDelete(db, fs, key, sync, io) ==
    LET Ensured(e) ==
            IF e.status # "OK" THEN e
            ELSE PutOrDelete(e.db, e.fs, kDelete, key, <<>>, sync, io)
    IN  Ensured(EnsureWALOpen(db, fs))

\* BatchWALHandler driven by Iterate over calls[i..]: a record per call while
\* status_ is OK: [w, data, status].
RECURSIVE BatchWALHandler(_, _, _, _, _)
BatchWALHandler(w, data, calls, i, io) ==
    LET Logged(a) ==
            IF a.status # "OK" THEN a
            ELSE BatchWALHandler(a.w, a.data, calls, i + 1, io)
    IN  IF i > Len(calls) THEN [w |-> w, data |-> data, status |-> "OK"]
        ELSE Logged(AddRecord(w, data, calls[i].type, calls[i].key, calls[i].value,
                              IF io.append_at = i THEN io.cut ELSE -1))

\* BatchHandler driven by Iterate: the calls applied to the MemTable in order.
RECURSIVE BatchHandler(_, _, _)
BatchHandler(m, calls, n) ==
    IF n = 0 THEN m
    ELSE IF calls[n].type = kPut
    THEN MemTablePut(BatchHandler(m, calls, n - 1), calls[n].key, calls[n].value)
    ELSE MemTableDelete(BatchHandler(m, calls, n - 1), calls[n].key)

\* DB::Write going on to the MemTable whatever the WAL pass ended with.
WalPassAlwaysAllowsApply(wal_status) == TRUE

\* Whether DB::Write goes on to the MemTable after the WAL pass ended with
\* wal_status (the check of wal_handler.GetStatus()).
WalPassAllowsApply(wal_status) == wal_status = "OK"

\* DB::Write of the batch rep: [db, fs, status].
DBWrite(db, fs, rep, sync, io) ==
    LET Synced(e, calls, fs1, sy) ==
            IF sy.status # "OK"
            THEN [db |-> [e.db EXCEPT !.wal_writer_ = sy.w], fs |-> fs1,
                  status |-> sy.status]
            ELSE MaybeScheduleFlush(
                     [e.db EXCEPT !.wal_writer_ = sy.w,
                                  !.memtable_ =
                                      BatchHandler(e.db.memtable_, calls, Len(calls))],
                     fs1, io.flush)
        Logged(e, calls, wp) ==
            IF ~WalPassAllowsApply(wp.status)
            THEN [db |-> [e.db EXCEPT !.wal_writer_ = wp.w],
                  fs |-> [e.fs EXCEPT !.log = wp.data], status |-> wp.status]
            ELSE Synced(e, calls, [e.fs EXCEPT !.log = wp.data],
                        IF sync THEN Sync(wp.w, io.sync) ELSE [w |-> wp.w, status |-> "OK"])
        Iterated(e, calls) ==
            Logged(e, calls, BatchWALHandler(e.db.wal_writer_, e.fs.log, calls, 1, io))
        Ensured(e) ==
            IF e.status # "OK" THEN e
            ELSE Iterated(e, Iterate(rep))
    IN  Ensured(EnsureWALOpen(db, fs))

\* DB::GetFromSSTable over sstable_files_[1..i], newest (last) first; a file
\* that cannot be opened and a NotFound from a file both move on to the next.
\* What a reader stored in *value stays there unless a later reader stores
\* something else.
RECURSIVE GetFromSSTableLoop(_, _, _, _)
GetFromSSTableLoop(db, fs, key, i) ==
    LET Kept(g, later) ==
            IF later.assigned \/ ~g.assigned THEN later
            ELSE [later EXCEPT !.assigned = TRUE, !.value = g.value]
        Got(g) ==
            IF g.status = "OK" THEN g
            ELSE Kept(g, GetFromSSTableLoop(db, fs, key, i - 1))
        Opened(reader, file) ==
            IF reader.status # "OK" THEN GetFromSSTableLoop(db, fs, key, i - 1)
            ELSE Got(SSTableReaderGet(reader, file, key))
        Named(exists, file) == Opened(SSTableReaderOpen(exists, file), file)
        File(n) == Named(n \in DOMAIN fs.sst, IF n \in DOMAIN fs.sst THEN fs.sst[n] ELSE <<>>)
    IN  IF i = 0 THEN [status |-> "NotFound", assigned |-> FALSE, value |-> <<>>]
        ELSE File(db.sstable_files_[i])

GetFromSSTable(db, fs, key) == GetFromSSTableLoop(db, fs, key, Len(db.sstable_files_))

\* DB::Get: [status, assigned, value]; assigned tells whether *value was
\* written, and value is what was written.
DBGet(db, fs, key) ==
    LET Sealed(im) ==
            IF im.found THEN [status |-> "OK", assigned |-> TRUE, value |-> im.value]
            ELSE GetFromSSTable(db, fs, key)
        Live(m) ==
            IF m.found THEN [status |-> "OK", assigned |-> TRUE, value |-> m.value]
            ELSE Sealed(IF db.imm_memtable_ # <<>>
                        THEN MemTableGet(db.imm_memtable_[1], key)
                        ELSE [found |-> FALSE, value |-> <<>>])
    IN  Live(MemTableGet(db.memtable_, key))

\* ReplayHandler driven by Replay: the records applied to the MemTable.
RECURSIVE ReplayHandler(_, _, _)
ReplayHandler(m, delivered, n) ==
    IF n = 0 THEN m
    ELSE IF delivered[n].type = kPut
    THEN MemTablePut(ReplayHandler(m, delivered, n - 1), delivered[n].key, delivered[n].value)
    ELSE MemTableDelete(ReplayHandler(m, delivered, n - 1), delivered[n].key)

\* A recovery that keeps what was replayed and reports no error where the
\* replay stopped on one.
RecoverFromWALLenient(db, fs) ==
    LET Replayed(r) ==
            [db |-> [db EXCEPT !.memtable_ =
                                   ReplayHandler(db.memtable_, r.delivered,
                                                 Len(r.delivered))],
             status |-> "OK"]
    IN  IF ~fs.log_exists THEN [db |-> db, status |-> "OK"]
        ELSE IF Len(fs.log) = 0 THEN [db |-> db, status |-> "OK"]
        ELSE Replayed(Replay(fs.log))

\* DB::RecoverFromWAL: [db, status].
RecoverFromWAL(db, fs) ==
    LET Replayed(r) ==
            [db |-> [db EXCEPT !.memtable_ =
                                   ReplayHandler(db.memtable_, r.delivered,
                                                 Len(r.delivered))],
             status |-> r.status]
    IN  IF ~fs.log_exists THEN [db |-> db, status |-> "OK"]
        ELSE IF Len(fs.log) = 0 THEN [db |-> db, status |-> "OK"]
        ELSE Replayed(Replay(fs.log))

\* DB::Open: [db, fs, status]; on an error the DB object is deleted and *dbptr
\* is nullptr (db is NewDB, not open).
DBOpen(options, fs) ==
    LET Recovered(r, fs2) ==
            IF r.status # "OK" THEN [db |-> NewDB, fs |-> fs2, status |-> r.status]
            ELSE [db |-> [r.db EXCEPT !.open = TRUE], fs |-> fs2, status |-> "OK"]
        \* fs2: the directory with the LOG the writer's open(..., app) creates
        Writer(fs2) ==
            Recovered(RecoverFromWAL(
                          [NewDB EXCEPT !.options_ =
                                            [write_buffer_size |-> options.write_buffer_size],
                                        !.wal_writer_ = WALWriter],
                          fs2),
                      fs2)
    IN  IF options.create_if_missing /\ fs.dir_exists /\ options.error_if_exists
        THEN [db |-> NewDB, fs |-> fs, status |-> "InvalidArgument"]
        ELSE IF ~options.create_if_missing /\ ~fs.dir_exists
        THEN [db |-> NewDB, fs |-> fs, status |-> "NotFound"]
        ELSE Writer([fs EXCEPT !.dir_exists = TRUE, !.log_exists = TRUE])

\* DestroyDB: fs::remove_all.
DestroyDB == NoDirectory

\* ------------------------------------------------------------ the callers

\* Bounds of the model.
MaxOps == 2          \* Put, Delete and Write calls in a run
MaxOpens == 2        \* DB::Open calls in a run
MaxFaults == 1       \* calls in a run during which an I/O operation fails
MaxBatchLen == 2     \* operations in a WriteBatch

Keys == {<<97>>, <<98>>}
Values == {<<49>>, <<50, 50>>}
WriteBufferSizes == {1, 2, 4 * 1024 * 1024}
Cuts == {0, 5}
BatchValues == {<<49>>}

OpenOptions ==
    [create_if_missing : BOOLEAN, error_if_exists : BOOLEAN,
     write_buffer_size : WriteBufferSizes]

\* The calls a WriteBatch is built by.
BatchOps ==
    [type : {kPut}, key : Keys, value : BatchValues]
        \cup [type : {kDelete}, key : Keys, value : {<<>>}]

Batches == UNION {[1..n -> BatchOps] : n \in 1..MaxBatchLen}

\* The I/O failures that can strike one call that appends n records: none, or
\* the stream failing in the i-th append after cut bytes, or the Sync failing,
\* or the SSTable file failing to open or to be written.
IoFaults(n) ==
    {NoIoFault}
        \cup {[NoIoFault EXCEPT !.append_at = i, !.cut = c] : i \in 1..n, c \in Cuts}
        \cup {[NoIoFault EXCEPT !.sync = TRUE]}
        \cup {[NoIoFault EXCEPT !.flush = f] : f \in {"open", "write"}}

\* What a caller of DB::Get sees: the status, and the value when it is OK.
GetResult(db_, fs_, key) ==
    LET Seen(g) ==
            [status |-> g.status, value |-> IF g.status = "OK" THEN g.value ELSE <<>>]
    IN  Seen(DBGet(db_, fs_, key))

NotFoundResult == [status |-> "NotFound", value |-> <<>>]

VARIABLES
    db,         \* the DB object the caller holds (NewDB, not open, when none)
    fs,         \* the database directory
    last,       \* the last call: its operation, arguments, injected failure, status
    sess,       \* about the calls since the last DB::Open
    expect,     \* per key, the last successful operation since the last Open,
                \* in the order the caller made them: <<>> none or Delete, <<v>> Put of v
    flushed,    \* per catalog entry, the MemTable contents FlushMemTable wrote
    pre_close,  \* what DB::Get returned per key when the DB was last closed
    iter,       \* the Iterator the caller holds from DB::NewIterator, if any
    threads,    \* the calls in progress on the DB object, per calling thread
    wal,        \* a WALWriter and a WALReader used on the LOG file directly
    sst,        \* an SSTableBuilder and an SSTableReader used on one file directly
    blk,        \* a BlockBuilder and a BlockReader used on one block directly
    mem,        \* a MemTable and a MemTableIterator used directly
    coding,     \* a call of EncodeVarint32 or DecodeVarint32 made directly
    nops, nopens, nfaults

vars == <<db, fs, last, sess, expect, flushed, pre_close, iter, threads, wal, sst,
          blk, mem, coding, nops, nopens, nfaults>>

\* No call of the varint functions.  src, max_len: the buffer and the length
\* DecodeVarint32 is given; n: the value EncodeVarint32 was given (-1 when the
\* bytes are not the output of a call); op: "none", "drawn" (bytes chosen by
\* the caller), "encoded" after EncodeVarint32, "decoded" after DecodeVarint32;
\* count: what EncodeVarint32 returned; len: what DecodeVarint32 returned;
\* value: the caller's uint32_t that DecodeVarint32 stores to.
NoCoding ==
    [src |-> <<>>, max_len |-> 0, n |-> -1, op |-> "none", count |-> 0, len |-> 0,
     value |-> 0]

NoCall ==
    [op |-> "none", key |-> <<>>, value |-> <<>>, batch |-> <<>>,
     io |-> NoIoFault, status |-> "OK"]

\* No Iterator held.  on: where the std::map the iterator refers to is ("live":
\* in memtable_, "sealed": in imm_memtable_, "destroyed": its MemTable was
\* deleted); table: that map's contents when last alive; seen: what the last
\* scan from SeekToFirst yielded.
NoIterator ==
    [outstanding |-> FALSE, on |-> "none", table |-> EmptyTable, scanned |-> FALSE,
     seen |-> <<>>]

\* The calling threads, and no call in progress: per thread the position in
\* its call (pc) and the call's arguments; memtable_null: memtable_ was moved
\* from and not yet reset; applied / logged: the operations in the order the
\* MemTable took them, resp. in the order their WAL records were appended;
\* crashed: a thread dereferenced the null memtable_.
Threads == {1, 2}

NoThreads ==
    [call |-> [t \in Threads |-> [pc |-> "idle", type |-> kPut, key |-> <<>>, value |-> <<>>]],
     memtable_null |-> FALSE, applied |-> <<>>, crashed |-> FALSE]

\* No WAL under test.  w: the WALWriter; written: the records AddRecord wrote
\* in full, in order; damage: what happened to the file besides ("none",
\* "truncated": the last AddRecord stopped inside its record, "tampered": one
\* byte was changed) and at which offset; pos, read, done: the WALReader's
\* offset, the results of its ReadRecord calls, and whether one returned false;
\* replayed: the WALReader::Replay call, its handler and what it returned.
NoWal ==
    [w |-> [is_open |-> FALSE, failed |-> FALSE], written |-> <<>>,
     damage |-> "none", at |-> 0, pos |-> 0, read |-> <<>>, done |-> FALSE,
     replayed |-> [called |-> FALSE, handler |-> NoHandlerFailure, status |-> "OK",
                   delivered |-> <<>>]]

\* No SSTable under test.  b: the SSTableBuilder; stride, value_len, tomb: the
\* caller's choice of keys and values (every stride-th key of the key list,
\* values of value_len bytes, the tomb-th entry a deletion marker if tomb > 0);
\* added: the entries Add took, in order; opened, reader: the SSTableReader
\* once Open was called; got: the SSTableReader::Get call, its key and what it
\* returned; blocks: per data block written, the bytes of the file its body
\* takes (after from, up to to) and the entries it holds (first to last of
\* added); damage: the position of the byte of the file that was changed
\* after Finish, 0 if none was.
NoSst ==
    [b |-> SSTableBuilder(FALSE, TRUE), stride |-> 1, value_len |-> 1, tomb |-> 0,
     added |-> <<>>, blocks |-> <<>>, damage |-> 0, opened |-> FALSE,
     reader |-> [status |-> "NotFound", valid |-> FALSE, index_block_data |-> <<>>],
     got |-> [called |-> FALSE, key |-> <<>>, status |-> "OK", value |-> <<>>]]

\* No block under test.  b: the BlockBuilder; stride: the caller's choice of
\* keys (every stride-th key of the key list); added: the entries Add took, in
\* order; phase: "build", then "built" once Finish returned the block's bytes
\* (data), then "sought" after a Seek to target or "scan" from SeekToFirst on;
\* r, status: the BlockReader and what its last call returned; seen: the
\* entries a scan found the reader Valid on, in order; raw: the entries of a
\* block that no BlockBuilder wrote (<<>> when a builder wrote it).
NoBlk ==
    [b |-> BlockBuilder(kDataRestartInterval), stride |-> 1, added |-> <<>>,
     phase |-> "build", data |-> <<>>, r |-> BlockReader(<<>>), target |-> <<>>,
     status |-> "OK", seen |-> <<>>, raw |-> <<>>]

\* No MemTable under test.  m: the MemTable; created, it: whether NewIterator
\* was called on it, and the MemTableIterator; was: the iterator before its
\* last call.
NoMem ==
    [m |-> MemTable, created |-> FALSE, it |-> MemTableIterator, was |-> MemTableIterator]

Init ==
    /\ db = NewDB
    /\ fs = NoDirectory
    /\ last = NoCall
    /\ sess = [fresh |-> FALSE, only_put_delete |-> TRUE, all_ok |-> TRUE]
    /\ expect = [k \in Keys |-> <<>>]
    /\ flushed = <<>>
    /\ pre_close = [valid |-> FALSE, get |-> [k \in Keys |-> NotFoundResult]]
    /\ iter = NoIterator
    /\ threads = NoThreads
    /\ wal = NoWal
    /\ sst = NoSst
    /\ blk = NoBlk
    /\ mem = NoMem
    /\ nops = 0
    /\ nopens = 0
    /\ coding = NoCoding
    /\ nfaults = 0

\* The calls applied to expect, in the order given.
RECURSIVE ExpectAfter(_, _, _)
ExpectAfter(e, calls, n) ==
    IF n = 0 THEN e
    ELSE [ExpectAfter(e, calls, n - 1) EXCEPT
              ![calls[n].key] = IF calls[n].type = kPut THEN <<calls[n].value>> ELSE <<>>]

\* The Iterator held, after a Put, Delete or Write call that returned r: an
\* iterator on the live table follows that table into imm_memtable_ when the
\* call seals it (MaybeScheduleFlush), and is left with a reference to a
\* destroyed map when FlushMemTable resets imm_memtable_.
IteratorAfter(r, table) ==
    IF ~iter.outstanding \/ iter.on # "live" THEN iter
    ELSE IF Len(r.db.sstable_files_) > Len(db.sstable_files_)
    THEN [iter EXCEPT !.on = "destroyed", !.table = table, !.scanned = FALSE]
    ELSE IF r.db.imm_memtable_ # db.imm_memtable_
    THEN [iter EXCEPT !.on = "sealed", !.table = table, !.scanned = FALSE]
    ELSE [iter EXCEPT !.table = r.db.memtable_.table, !.scanned = FALSE]

\* The bookkeeping of one Put, Delete or Write call that returned r; calls are
\* the operations in the caller's order, table the live MemTable's contents
\* once the call has applied them.
Account(r, op, calls, table, io) ==
    /\ db' = r.db
    /\ fs' = r.fs
    /\ sess' = [sess EXCEPT !.only_put_delete = @ /\ op # "Write" /\ r.status = "OK",
                            !.all_ok = @ /\ r.status = "OK"]
    /\ expect' = IF r.status = "OK" THEN ExpectAfter(expect, calls, Len(calls)) ELSE expect
    /\ flushed' = IF Len(r.db.sstable_files_) > Len(db.sstable_files_)
                  THEN Append(flushed, table) ELSE flushed
    /\ nops' = nops + 1
    /\ nfaults' = IF io = NoIoFault THEN nfaults ELSE nfaults + 1
    /\ iter' = IteratorAfter(r, table)
    /\ UNCHANGED <<pre_close, threads, wal, sst, blk, mem, nopens, coding>>

Open(options) ==
    /\ ~db.open
    /\ nopens < MaxOpens
    /\ LET Returned(r) ==
               /\ db' = r.db
               /\ fs' = r.fs
               /\ last' = [NoCall EXCEPT !.op = "Open", !.status = r.status]
       IN  Returned(DBOpen(options, fs))
    /\ sess' = [fresh |-> fs.log = <<>>, only_put_delete |-> TRUE, all_ok |-> TRUE]
    /\ expect' = [k \in Keys |-> <<>>]
    /\ flushed' = <<>>
    /\ nopens' = nopens + 1
    /\ UNCHANGED <<pre_close, iter, threads, wal, sst, blk, mem, nops, nfaults, coding>>

PutCall(key, value, sync, io) ==
    LET Returned(r) ==
            /\ last' = [NoCall EXCEPT !.op = "Put", !.key = key, !.value = value,
                                      !.io = io, !.status = r.status]
            /\ Account(r, "Put", <<[type |-> kPut, key |-> key, value |-> value]>>,
                       MemTablePut(db.memtable_, key, value).table, io)
    IN  Returned(DBPut(db, fs, key, value, sync, io))

Put(key, value, sync, io) ==
    /\ db.open
    /\ nops < MaxOps
    /\ io = NoIoFault \/ nfaults < MaxFaults
    /\ PutCall(key, value, sync, io)

Delete(key, sync, io) ==
    /\ db.open
    /\ nops < MaxOps
    /\ io = NoIoFault \/ nfaults < MaxFaults
    /\ LET Returned(r) ==
               /\ last' = [NoCall EXCEPT !.op = "Delete", !.key = key,
                                         !.io = io, !.status = r.status]
               /\ Account(r, "Delete", <<[type |-> kDelete, key |-> key, value |-> <<>>]>>,
                          MemTableDelete(db.memtable_, key).table, io)
       IN  Returned(DBDelete(db, fs, key, sync, io))

Write(batch, sync, io) ==
    /\ db.open
    /\ nops < MaxOps
    /\ io = NoIoFault \/ nfaults < MaxFaults
    /\ LET Returned(r, rep) ==
               /\ last' = [NoCall EXCEPT !.op = "Write", !.batch = batch,
                                         !.io = io, !.status = r.status]
               /\ Account(r, "Write", batch,
                          BatchHandler(db.memtable_, Iterate(rep), Len(batch)).table, io)
           Built(rep) == Returned(DBWrite(db, fs, rep, sync, io), rep)
       IN  Built(WriteBatchOf(batch, Len(batch)))

\* delete db: DB::~DB closes the WAL writer.
Close ==
    /\ db.open
    /\ db' = NewDB
    /\ last' = [NoCall EXCEPT !.op = "Close"]
    /\ pre_close' = [valid |-> sess.all_ok, get |-> [k \in Keys |-> GetResult(db, fs, k)]]
    /\ flushed' = <<>>
    /\ UNCHANGED <<fs, sess, expect, iter, threads, wal, sst, blk, mem, nops, nopens, nfaults, coding>>

Destroy ==
    /\ ~db.open
    /\ fs.dir_exists
    /\ nopens < MaxOpens
    /\ fs' = DestroyDB
    /\ last' = [NoCall EXCEPT !.op = "DestroyDB"]
    /\ pre_close' = [pre_close EXCEPT !.valid = FALSE]
    /\ UNCHANGED <<db, sess, expect, flushed, iter, threads, wal, sst, blk, mem, nops, nopens, nfaults, coding>>

Next ==
    \/ \E options \in OpenOptions : Open(options)
    \/ \E key \in Keys, value \in Values, sync \in BOOLEAN, io \in IoFaults(1) :
           Put(key, value, sync, io)
    \/ \E key \in Keys, sync \in BOOLEAN, io \in IoFaults(1) : Delete(key, sync, io)
    \/ \E batch \in Batches : \E sync \in BOOLEAN, io \in IoFaults(Len(batch)) :
           Write(batch, sync, io)
    \/ Close
    \/ Destroy

Spec == Init /\ [][Next]_vars

\* ------------------------------------------- one WriteBatch, one DB::Write

\* The longest batch drawn, and the values v1, v2, v3 of the WriteBatch
\* header's example.
MaxDrawnLen == 4
DrawnKey == <<97>>
DrawnValues == {<<49>>, <<50>>, <<51>>}

DrawnOps ==
    [type : {kPut}, key : {DrawnKey}, value : DrawnValues]
        \cup {[type |-> kDelete, key |-> DrawnKey, value |-> <<>>]}

DrawnBatches == UNION {[1..n -> DrawnOps] : n \in 1..MaxDrawnLen}

FreshOptions(write_buffer_size) ==
    [create_if_missing |-> TRUE, error_if_exists |-> FALSE,
     write_buffer_size |-> write_buffer_size]

\* A database just created by DB::Open, and a batch the caller has built.
InitBatch ==
    /\ \E batch \in DrawnBatches : last = [NoCall EXCEPT !.op = "Batch", !.batch = batch]
    /\ LET Returned(r) ==
               /\ db = r.db
               /\ fs = r.fs
       IN  Returned(DBOpen(FreshOptions(DefaultOptions.write_buffer_size), NoDirectory))
    /\ sess = [fresh |-> TRUE, only_put_delete |-> TRUE, all_ok |-> TRUE]
    /\ expect = [k \in Keys |-> <<>>]
    /\ flushed = <<>>
    /\ pre_close = [valid |-> FALSE, get |-> [k \in Keys |-> NotFoundResult]]
    /\ iter = NoIterator
    /\ threads = NoThreads
    /\ wal = NoWal
    /\ sst = NoSst
    /\ blk = NoBlk
    /\ mem = NoMem
    /\ nops = 0
    /\ nopens = 1
    /\ coding = NoCoding
    /\ nfaults = 0

WriteDrawn ==
    /\ last.op = "Batch"
    /\ Write(last.batch, FALSE, NoIoFault)

NextBatch == WriteDrawn

SpecBatch == InitBatch /\ [][NextBatch]_vars

\* --------------------------- a bulk load: ascending keys, round after round

BulkKeyCount == 17      \* one more than the data blocks' restart interval
MaxBulkPuts == 51       \* three rounds over the keys
BulkKeys == {<<96 + i>> : i \in 1..BulkKeyCount}
BulkWriteBufferSizes == {31, 33, 35, 37}

\* A database just created by DB::Open with a small write buffer.
InitBulk ==
    /\ \E w \in BulkWriteBufferSizes :
           LET Returned(r) ==
                   /\ db = r.db
                   /\ fs = r.fs
           IN  Returned(DBOpen(FreshOptions(w), NoDirectory))
    /\ last = [NoCall EXCEPT !.op = "Open"]
    /\ sess = [fresh |-> TRUE, only_put_delete |-> TRUE, all_ok |-> TRUE]
    /\ expect = [k \in BulkKeys |-> <<>>]
    /\ flushed = <<>>
    /\ pre_close = [valid |-> FALSE, get |-> [k \in Keys |-> NotFoundResult]]
    /\ iter = NoIterator
    /\ threads = NoThreads
    /\ wal = NoWal
    /\ sst = NoSst
    /\ blk = NoBlk
    /\ mem = NoMem
    /\ nops = 0
    /\ nopens = 1
    /\ coding = NoCoding
    /\ nfaults = 0

\* The next Put of the load: the keys in ascending order, in round i (from 0)
\* with the one-byte value "1" + i.
BulkPut ==
    /\ nops < MaxBulkPuts
    /\ PutCall(<<97 + (nops % BulkKeyCount)>>, <<49 + (nops \div BulkKeyCount)>>,
               FALSE, NoIoFault)

NextBulk == BulkPut

SpecBulk == InitBulk /\ [][NextBulk]_vars

\* ------------------------------ an Iterator held across Put and Delete calls

IterWriteBufferSizes == {1, 2, 3}

\* A database just created by DB::Open with a small write buffer.
InitIter ==
    /\ \E w \in IterWriteBufferSizes :
           LET Returned(r) ==
                   /\ db = r.db
                   /\ fs = r.fs
           IN  Returned(DBOpen(FreshOptions(w), NoDirectory))
    /\ last = [NoCall EXCEPT !.op = "Open"]
    /\ sess = [fresh |-> TRUE, only_put_delete |-> TRUE, all_ok |-> TRUE]
    /\ expect = [k \in Keys |-> <<>>]
    /\ flushed = <<>>
    /\ pre_close = [valid |-> FALSE, get |-> [k \in Keys |-> NotFoundResult]]
    /\ iter = NoIterator
    /\ threads = NoThreads
    /\ wal = NoWal
    /\ sst = NoSst
    /\ blk = NoBlk
    /\ mem = NoMem
    /\ nops = 0
    /\ nopens = 1
    /\ coding = NoCoding
    /\ nfaults = 0

\* The entries of a std::map in ascending key order.
TableScan(table) == MemTableScan([table |-> table, approximate_size |-> 0])

\* DB::NewIterator: a MemTableIterator on the live MemTable's table_.
NewIterator ==
    /\ db.open
    /\ ~iter.outstanding
    /\ iter' = [NoIterator EXCEPT !.outstanding = TRUE, !.on = "live",
                                  !.table = db.memtable_.table]
    /\ last' = [NoCall EXCEPT !.op = "NewIterator"]
    /\ UNCHANGED <<db, fs, sess, expect, flushed, pre_close, threads, wal, sst, blk, mem, nops, nopens, nfaults, coding>>

\* SeekToFirst, then key()/value()/Next() while Valid(): what the caller
\* collects.  On a destroyed map the reads are of freed memory: the old
\* entries, or nothing, or other entries of the process (here those of the
\* live MemTable).
IteratorScan ==
    /\ iter.outstanding
    /\ \E entries \in
           IF iter.on = "live" THEN {MemTableScan(db.memtable_)}
           ELSE IF iter.on = "sealed" THEN {MemTableScan(db.imm_memtable_[1])}
           ELSE {TableScan(iter.table), <<>>, MemTableScan(db.memtable_)} :
           iter' = [iter EXCEPT !.scanned = TRUE, !.seen = entries]
    /\ last' = [NoCall EXCEPT !.op = "Scan"]
    /\ UNCHANGED <<db, fs, sess, expect, flushed, pre_close, threads, wal, sst, blk, mem, nops, nopens, nfaults, coding>>

\* delete it.
DeleteIterator ==
    /\ iter.outstanding
    /\ iter' = NoIterator
    /\ last' = [NoCall EXCEPT !.op = "DeleteIterator"]
    /\ UNCHANGED <<db, fs, sess, expect, flushed, pre_close, threads, wal, sst, blk, mem, nops, nopens, nfaults, coding>>

NextIter ==
    \/ \E key \in Keys, value \in Values, io \in IoFaults(1) : Put(key, value, FALSE, io)
    \/ \E key \in Keys, io \in IoFaults(1) : Delete(key, FALSE, io)
    \/ NewIterator
    \/ IteratorScan
    \/ DeleteIterator

SpecIter == InitIter /\ [][NextIter]_vars

\* ------------------------- DB::Get over SSTable files damaged on the disk

\* No file FlushMemTable writes here is longer.
SstFileBytes == 120

\* A database just created by DB::Open with a small write buffer, so that
\* every Put or two fills the MemTable and FlushMemTable writes a file.
InitDamage == InitIter

\* One byte of a file of the catalog is changed on the disk: its lowest bit
\* flipped.
SstFileTamper(n, i) ==
    /\ db.open
    /\ nfaults < MaxFaults
    /\ n \in DOMAIN fs.sst
    /\ i \in 1..Len(fs.sst[n])
    /\ fs' = [fs EXCEPT !.sst[n][i] = IF @ % 2 = 0 THEN @ + 1 ELSE @ - 1]
    /\ nfaults' = nfaults + 1
    /\ last' = [NoCall EXCEPT !.op = "Tamper"]
    /\ UNCHANGED <<db, sess, expect, flushed, pre_close, iter, threads, wal, sst, blk, mem, nops, nopens, coding>>

\* A file of the catalog loses its contents on the disk.
SstFileTruncate(n) ==
    /\ db.open
    /\ nfaults < MaxFaults
    /\ n \in DOMAIN fs.sst
    /\ fs' = [fs EXCEPT !.sst[n] = <<>>]
    /\ nfaults' = nfaults + 1
    /\ last' = [NoCall EXCEPT !.op = "Truncate"]
    /\ UNCHANGED <<db, sess, expect, flushed, pre_close, iter, threads, wal, sst, blk, mem, nops, nopens, coding>>

\* What the caller's std::string holds when it calls DB::Get: "?".
CallerValue == <<63>>

\* DB::Get of key; last.value is the caller's std::string after the call.
Get(key) ==
    /\ db.open
    /\ LET Returned(r) ==
               last' = [NoCall EXCEPT !.op = "Get", !.key = key, !.status = r.status,
                                      !.value = IF r.assigned THEN r.value
                                                ELSE CallerValue]
       IN  Returned(DBGet(db, fs, key))
    /\ UNCHANGED <<db, fs, sess, expect, flushed, pre_close, iter, threads, wal, sst, blk, mem, nops, nopens, nfaults, coding>>

NextDamage ==
    \/ \E key \in Keys, value \in Values : Put(key, value, FALSE, NoIoFault)
    \/ \E key \in Keys : Delete(key, FALSE, NoIoFault)
    \/ \E n \in 1..MaxOps, i \in 1..SstFileBytes : SstFileTamper(n, i)
    \/ \E n \in 1..MaxOps : SstFileTruncate(n)
    \/ \E key \in Keys : Get(key)

SpecDamage == InitDamage /\ [][NextDamage]_vars

\* ------------------------------------- a MemTable and a MemTableIterator on it

MaxMemCalls == 3        \* Put and Delete calls on the MemTable
MemKeys == {<<97>>, <<97, 97>>, <<98>>}
MemValues == {<<>>, <<49>>, <<50, 50>>, <<0>>}
MemTargets == MemKeys \cup {<<>>, <<97, 98>>, <<99>>}

\* A MemTable just constructed.
InitMem ==
    /\ db = NewDB
    /\ fs = NoDirectory
    /\ last = NoCall
    /\ sess = [fresh |-> FALSE, only_put_delete |-> TRUE, all_ok |-> TRUE]
    /\ expect = [k \in Keys |-> <<>>]
    /\ flushed = <<>>
    /\ pre_close = [valid |-> FALSE, get |-> [k \in Keys |-> NotFoundResult]]
    /\ iter = NoIterator
    /\ threads = NoThreads
    /\ wal = NoWal
    /\ sst = NoSst
    /\ blk = NoBlk
    /\ mem = NoMem
    /\ nops = 0
    /\ nopens = 0
    /\ coding = NoCoding
    /\ nfaults = 0

MemFrame == UNCHANGED <<db, fs, sess, expect, flushed, pre_close, iter, threads, wal, sst, blk, nopens, nfaults, coding>>

\* MemTable::Put.  A std::map keeps its iterators across an insertion.
MemPut(key, value) ==
    /\ nops < MaxMemCalls
    /\ mem' = [mem EXCEPT !.m = MemTablePut(@, key, value)]
    /\ last' = [NoCall EXCEPT !.op = "Put", !.key = key, !.value = value]
    /\ nops' = nops + 1
    /\ MemFrame

\* MemTable::Delete.
MemDelete(key) ==
    /\ nops < MaxMemCalls
    /\ mem' = [mem EXCEPT !.m = MemTableDelete(@, key)]
    /\ last' = [NoCall EXCEPT !.op = "Delete", !.key = key]
    /\ nops' = nops + 1
    /\ MemFrame

\* MemTable::NewIterator.
MemNewIterator ==
    /\ ~mem.created
    /\ mem' = [mem EXCEPT !.created = TRUE, !.it = MemTableIterator, !.was = MemTableIterator]
    /\ last' = [NoCall EXCEPT !.op = "NewIterator"]
    /\ UNCHANGED nops
    /\ MemFrame

\* A call on the iterator that leaves it as moved.
MemMoved(op, target, moved) ==
    /\ mem' = [mem EXCEPT !.it = moved, !.was = mem.it]
    /\ last' = [NoCall EXCEPT !.op = op, !.key = target]
    /\ UNCHANGED nops
    /\ MemFrame

MemSeekToFirst ==
    /\ mem.created
    /\ MemMoved("SeekToFirst", <<>>, MemTableIteratorSeekToFirst(mem.m.table))

MemSeekToLast ==
    /\ mem.created
    /\ MemMoved("SeekToLast", <<>>, MemTableIteratorSeekToLast(mem.m.table))

MemSeek(target) ==
    /\ mem.created
    /\ MemMoved("Seek", target, MemTableIteratorSeek(mem.m.table, target))

MemNext ==
    /\ mem.created
    /\ MemMoved("Next", <<>>, MemTableIteratorNext(mem.it, mem.m.table))

MemPrev ==
    /\ mem.created
    /\ MemMoved("Prev", <<>>, MemTableIteratorPrev(mem.it, mem.m.table))

NextMem ==
    \/ \E key \in MemKeys, value \in MemValues : MemPut(key, value)
    \/ \E key \in MemKeys : MemDelete(key)
    \/ MemNewIterator
    \/ MemSeekToFirst
    \/ MemSeekToLast
    \/ \E target \in MemTargets : MemSeek(target)
    \/ MemNext
    \/ MemPrev

SpecMem == InitMem /\ [][NextMem]_vars

\* ------------------------- two threads calling Put, Delete and Get on one DB

MaxThreadCalls == 3     \* Put and Delete calls of the threads together
ThreadKeys == {<<97>>}
ThreadValues == {<<49>>, <<50>>}
ThreadWriteBufferSizes == {1, 4}

\* A database just created by DB::Open, handed to the threads.
InitThreads ==
    /\ \E w \in ThreadWriteBufferSizes :
           LET Returned(r) ==
                   /\ db = r.db
                   /\ fs = r.fs
           IN  Returned(DBOpen(FreshOptions(w), NoDirectory))
    /\ last = [NoCall EXCEPT !.op = "Open"]
    /\ sess = [fresh |-> TRUE, only_put_delete |-> TRUE, all_ok |-> TRUE]
    /\ expect = [k \in Keys |-> <<>>]
    /\ flushed = <<>>
    /\ pre_close = [valid |-> FALSE, get |-> [k \in Keys |-> NotFoundResult]]
    /\ iter = NoIterator
    /\ threads = NoThreads
    /\ wal = NoWal
    /\ sst = NoSst
    /\ blk = NoBlk
    /\ mem = NoMem
    /\ nops = 0
    /\ nopens = 1
    /\ coding = NoCoding
    /\ nfaults = 0

\* What no step of a thread touches.
ThreadFrame ==
    UNCHANGED <<sess, expect, flushed, pre_close, iter, wal, sst, blk, mem, nopens, nfaults, coding>>

\* The thread's position and the operation it is carrying out.
ThreadAt(t, pc) == ~threads.crashed /\ threads.call[t].pc = pc

ThreadOp(t) ==
    [type |-> threads.call[t].type, key |-> threads.call[t].key,
     value |-> threads.call[t].value]

\* A thread enters DB::Put or DB::Delete.  Nothing is locked: mutex_ is never
\* acquired.
ThreadCall(t, type, key, value) ==
    /\ ThreadAt(t, "idle")
    /\ nops < MaxThreadCalls
    /\ threads' = [threads EXCEPT !.call[t] =
                       [pc |-> "AddRecord", type |-> type, key |-> key, value |-> value]]
    /\ last' = [NoCall EXCEPT !.op = "Call"]
    /\ nops' = nops + 1
    /\ UNCHANGED <<db, fs, coding>>
    /\ ThreadFrame

\* EnsureWALOpen and wal_writer_->AddRecord.
ThreadAddRecord(t) ==
    /\ ThreadAt(t, "AddRecord")
    /\ LET Logged(a) ==
               /\ db' = [db EXCEPT !.wal_writer_ = a.w]
               /\ fs' = [fs EXCEPT !.log = a.data]
       IN  Logged(AddRecord(db.wal_writer_, fs.log, threads.call[t].type,
                            threads.call[t].key, threads.call[t].value, -1))
    /\ threads' = [threads EXCEPT !.call[t].pc = "MemTable"]
    /\ last' = [NoCall EXCEPT !.op = "AddRecord"]
    /\ UNCHANGED nops
    /\ ThreadFrame

\* memtable_->Put or memtable_->Delete; on a memtable_ that another thread
\* has moved from, a null pointer is dereferenced.
ThreadMemTable(t) ==
    /\ ThreadAt(t, "MemTable")
    /\ IF threads.memtable_null
       THEN /\ threads' = [threads EXCEPT !.crashed = TRUE]
            /\ UNCHANGED db
       ELSE /\ db' = [db EXCEPT !.memtable_ =
                          IF threads.call[t].type = kPut
                          THEN MemTablePut(db.memtable_, threads.call[t].key,
                                           threads.call[t].value)
                          ELSE MemTableDelete(db.memtable_, threads.call[t].key)]
            /\ threads' = [threads EXCEPT !.call[t].pc = "MaybeScheduleFlush",
                                          !.applied = Append(@, ThreadOp(t))]
    /\ last' = [NoCall EXCEPT !.op = "MemTable"]
    /\ UNCHANGED <<fs, nops, coding>>
    /\ ThreadFrame

\* MaybeScheduleFlush up to imm_memtable_ = std::move(memtable_): the
\* threshold test, and the move that leaves memtable_ null.
ThreadSeal(t) ==
    /\ ThreadAt(t, "MaybeScheduleFlush")
    /\ IF threads.memtable_null
       THEN /\ threads' = [threads EXCEPT !.crashed = TRUE]
            /\ UNCHANGED db
       ELSE IF FlushDue(db)
       THEN /\ db' = [db EXCEPT !.imm_memtable_ = <<db.memtable_>>]
            /\ threads' = [threads EXCEPT !.call[t].pc = "make_unique",
                                          !.memtable_null = TRUE]
       ELSE /\ threads' = [threads EXCEPT !.call[t].pc = "idle"]
            /\ UNCHANGED db
    /\ last' = [NoCall EXCEPT !.op = "Seal"]
    /\ UNCHANGED <<fs, nops, coding>>
    /\ ThreadFrame

\* memtable_ = std::make_unique<MemTable>().
ThreadNewMemTable(t) ==
    /\ ThreadAt(t, "make_unique")
    /\ db' = [db EXCEPT !.memtable_ = MemTable]
    /\ threads' = [threads EXCEPT !.call[t].pc = "FlushMemTable",
                                  !.memtable_null = FALSE]
    /\ last' = [NoCall EXCEPT !.op = "NewMemTable"]
    /\ UNCHANGED <<fs, nops, coding>>
    /\ ThreadFrame

\* FlushMemTable, and the return of the call.
ThreadFlush(t) ==
    /\ ThreadAt(t, "FlushMemTable")
    /\ LET Returned(r) ==
               /\ db' = r.db
               /\ fs' = r.fs
       IN  Returned(FlushMemTable(db, fs, "none"))
    /\ threads' = [threads EXCEPT !.call[t].pc = "idle"]
    /\ last' = [NoCall EXCEPT !.op = "Flush"]
    /\ UNCHANGED nops
    /\ ThreadFrame

\* DB::Get by a thread that is in no other call; it starts with
\* memtable_->Get.
ThreadGet(t, key) ==
    /\ ThreadAt(t, "idle")
    /\ IF threads.memtable_null
       THEN /\ threads' = [threads EXCEPT !.crashed = TRUE]
            /\ last' = [NoCall EXCEPT !.op = "Get", !.key = key, !.status = "crash"]
       ELSE /\ LET Returned(g) ==
                       last' = [NoCall EXCEPT !.op = "Get", !.key = key,
                                              !.status = g.status, !.value = g.value]
               IN  Returned(GetResult(db, fs, key))
            /\ UNCHANGED threads
    /\ UNCHANGED <<db, fs, nops, coding>>
    /\ ThreadFrame

NextThreads ==
    \/ \E t \in Threads, key \in ThreadKeys, value \in ThreadValues :
           ThreadCall(t, kPut, key, value)
    \/ \E t \in Threads, key \in ThreadKeys : ThreadCall(t, kDelete, key, <<>>)
    \/ \E t \in Threads : ThreadAddRecord(t)
    \/ \E t \in Threads : ThreadMemTable(t)
    \/ \E t \in Threads : ThreadSeal(t)
    \/ \E t \in Threads : ThreadNewMemTable(t)
    \/ \E t \in Threads : ThreadFlush(t)
    \/ \E t \in Threads, key \in ThreadKeys : ThreadGet(t, key)

SpecThreads == InitThreads /\ [][NextThreads]_vars

\* ------------------ a WALWriter, then a WALReader or DB::Open, on one LOG

MaxWalRecords == 2      \* records written to the log in full
WalKeys == {<<>>, <<97>>}
WalValues == {<<>>, <<49>>}
\* Type bytes that are none of Put, Delete, Sync, Eof.
UnknownTypes == {0, 5}
WalTypes == {kPut, kDelete} \cup UnknownTypes
\* The values a byte of the file is changed to.
TamperBytes == {0, 1, 2, 3, 4, 5, 49, 97, 128, 255}

\* The length of a record's encoding, and the offsets inside it at which an
\* AddRecord that fails part-way can stop.
RecordLength(key, value) == 13 + Len(key) + Len(value)

WalCuts(key, value) == 1..(RecordLength(key, value) - 1)

\* A new WALWriter on an existing directory: the LOG is created, empty.
InitWal ==
    /\ db = NewDB
    /\ fs = [NoDirectory EXCEPT !.dir_exists = TRUE, !.log_exists = TRUE]
    /\ last = NoCall
    /\ sess = [fresh |-> FALSE, only_put_delete |-> TRUE, all_ok |-> TRUE]
    /\ expect = [k \in Keys |-> <<>>]
    /\ flushed = <<>>
    /\ pre_close = [valid |-> FALSE, get |-> [k \in Keys |-> NotFoundResult]]
    /\ iter = NoIterator
    /\ threads = NoThreads
    /\ wal = [NoWal EXCEPT !.w = WALWriter]
    /\ sst = NoSst
    /\ blk = NoBlk
    /\ mem = NoMem
    /\ nops = 0
    /\ nopens = 0
    /\ coding = NoCoding
    /\ nfaults = 0

WalFrame ==
    UNCHANGED <<sess, expect, flushed, pre_close, iter, threads, sst, blk, mem, nops, nopens, nfaults, coding>>

\* WALWriter::AddRecord; cut < 0: the record is written in full, cut > 0: the
\* stream fails after cut bytes of it.
WalAddRecord(type, key, value, cut) ==
    /\ wal.w.is_open
    /\ ~wal.w.failed
    /\ Len(wal.written) < MaxWalRecords
    /\ LET Returned(r) ==
               /\ fs' = [fs EXCEPT !.log = r.data]
               /\ wal' = IF r.status = "OK"
                         THEN [wal EXCEPT !.w = r.w,
                                          !.written = Append(@, [type |-> type, key |-> key,
                                                                 value |-> value])]
                         ELSE [wal EXCEPT !.w = r.w, !.damage = "truncated",
                                          !.at = Len(r.data)]
               /\ last' = [NoCall EXCEPT !.op = "AddRecord", !.status = r.status]
       IN  Returned(AddRecord(wal.w, fs.log, type, key, value, cut))
    /\ UNCHANGED db
    /\ WalFrame

\* WALWriter::Close.
WalClose ==
    /\ wal.w.is_open
    /\ wal' = [wal EXCEPT !.w = WALWriterClose(@)]
    /\ last' = [NoCall EXCEPT !.op = "Close"]
    /\ UNCHANGED <<db, fs, coding>>
    /\ WalFrame

\* The LOG is closed and nothing has read it yet.
WalAtRest ==
    /\ ~wal.w.is_open
    /\ wal.read = <<>>
    /\ last.op # "Open"

\* One byte of a log of Put and Delete records is changed on disk.
WalTamper(i, b) ==
    /\ WalAtRest
    /\ wal.damage = "none"
    /\ \A n \in DOMAIN wal.written : wal.written[n].type \in {kPut, kDelete}
    /\ i \in 1..Len(fs.log)
    /\ b # fs.log[i]
    /\ fs' = [fs EXCEPT !.log[i] = b]
    /\ wal' = [wal EXCEPT !.damage = "tampered", !.at = i]
    /\ last' = [NoCall EXCEPT !.op = "Tamper"]
    /\ UNCHANGED db
    /\ WalFrame

\* WALReader::ReadRecord by a reader opened on the closed LOG; the caller
\* stops at the first call that returns false.
WalReadRecord ==
    /\ ~wal.w.is_open
    /\ ~wal.done
    /\ last.op # "Open"
    /\ LET Returned(r) ==
               wal' = [wal EXCEPT !.pos = r.pos,
                                  !.read = Append(@, [ret |-> r.ret, type |-> r.type,
                                                      key |-> r.key, value |-> r.value,
                                                      status |-> r.status]),
                                  !.done = ~r.ret]
       IN  Returned(ReadRecord(fs.log, wal.pos))
    /\ last' = [NoCall EXCEPT !.op = "ReadRecord"]
    /\ UNCHANGED <<db, fs, coding>>
    /\ WalFrame

\* DB::Open on the directory of the closed LOG.
WalOpen ==
    /\ WalAtRest
    /\ LET Returned(r) ==
               /\ db' = r.db
               /\ fs' = r.fs
               /\ last' = [NoCall EXCEPT !.op = "Open", !.status = r.status]
       IN  Returned(DBOpen(DefaultOptions, fs))
    /\ UNCHANGED wal
    /\ WalFrame

NextWal ==
    \/ \E type \in WalTypes, key \in WalKeys, value \in WalValues :
           \E cut \in {-1} \cup WalCuts(key, value) : WalAddRecord(type, key, value, cut)
    \/ WalClose
    \/ \E i \in 1..(MaxWalRecords * RecordLength(<<97>>, <<49>>)), b \in TamperBytes :
           WalTamper(i, b)
    \/ WalReadRecord
    \/ WalOpen

SpecWal == InitWal /\ [][NextWal]_vars

\* ------------------ WALReader::Replay of a log of Put, Delete, Sync and Eof

ReplayTypes == {kPut, kDelete, kSync, kEof}

\* The handlers: one that never fails, and those whose n-th call fails.
Handlers ==
    {NoHandlerFailure}
        \cup {[fail_at |-> n, status |-> "InvalidArgument"] : n \in 1..MaxWalRecords}

\* A new WALWriter on an existing directory.
InitReplay == InitWal

\* WALReader::Replay with the handler given, by a reader opened on the closed
\* LOG.
WalReplay(handler) ==
    /\ ~wal.w.is_open
    /\ ~wal.replayed.called
    /\ LET Returned(r) ==
               wal' = [wal EXCEPT !.replayed = [called |-> TRUE, handler |-> handler,
                                                status |-> r.status,
                                                delivered |-> r.delivered]]
       IN  Returned(ReplayHandled(fs.log, handler))
    /\ last' = [NoCall EXCEPT !.op = "Replay"]
    /\ UNCHANGED <<db, fs, coding>>
    /\ WalFrame

NextReplay ==
    \/ \E type \in ReplayTypes, key \in WalKeys, value \in WalValues :
           WalAddRecord(type, key, value, -1)
    \/ WalClose
    \/ \E handler \in Handlers : WalReplay(handler)

SpecReplay == InitReplay /\ [][NextReplay]_vars

\* ------------- an SSTableBuilder, then an SSTableReader, on one .sst file

MaxSstEntries == 24     \* entries added to the builder
SstStrides == {1, 2}
SstValueLens == {1, 200}
SstTombs == {0, 3}

\* The i-th key of the caller's list: two bytes, ascending in i.
SstKey(i) == <<97 + (i \div 26), 97 + (i % 26)>>

\* The value written with the i-th key.
SstValue(i, value_len) == [j \in 1..value_len |-> 48 + (i % 10)]

\* A new SSTableBuilder on a file it could open.
InitSst ==
    /\ db = NewDB
    /\ fs = NoDirectory
    /\ last = NoCall
    /\ sess = [fresh |-> FALSE, only_put_delete |-> TRUE, all_ok |-> TRUE]
    /\ expect = [k \in Keys |-> <<>>]
    /\ flushed = <<>>
    /\ pre_close = [valid |-> FALSE, get |-> [k \in Keys |-> NotFoundResult]]
    /\ iter = NoIterator
    /\ threads = NoThreads
    /\ wal = NoWal
    /\ blk = NoBlk
    /\ mem = NoMem
    /\ \E stride \in SstStrides, value_len \in SstValueLens, tomb \in SstTombs :
           sst = [NoSst EXCEPT !.b = SSTableBuilder(TRUE, TRUE), !.stride = stride,
                               !.value_len = value_len, !.tomb = tomb]
    /\ nops = 0
    /\ nopens = 0
    /\ coding = NoCoding
    /\ nfaults = 0

SstFrame ==
    UNCHANGED <<db, fs, sess, expect, flushed, pre_close, iter, threads, wal, blk, mem,
                nopens, nfaults, coding>>

\* The data blocks written once the file has grown to file and the data block
\* FlushDataBlock wrote, if it wrote one, ends at position to: that block holds
\* the entries added since the block before it.
BlocksAfter(file, to) ==
    IF Len(file) = Len(sst.b.file) THEN sst.blocks
    ELSE Append(sst.blocks,
                [from |-> Len(sst.b.file), to |-> to,
                 first |-> IF sst.blocks = <<>> THEN 1
                           ELSE sst.blocks[Len(sst.blocks)].last + 1,
                 last |-> Len(sst.added)])

\* A call on the builder after Finish: up to MaxLateCalls of them, on a file
\* that no reader has opened and no byte of which was changed.
MaxLateCalls == 2

SstLate == nops < MaxLateCalls /\ ~sst.opened /\ sst.damage = 0

\* SSTableBuilder::Add of the next key of the caller's choice.
SstAdd ==
    /\ IF sst.b.finished THEN SstLate ELSE Len(sst.added) < MaxSstEntries
    /\ LET Returned(key, value, r) ==
               /\ sst' = [sst EXCEPT !.b = r.b,
                                     !.blocks = BlocksAfter(r.b.file, Len(r.b.file) - 5),
                                     !.added = IF r.status = "OK"
                                               THEN Append(@, [key |-> key, value |-> value])
                                               ELSE @]
               /\ last' = [NoCall EXCEPT !.op = "Add", !.key = key, !.status = r.status]
           Chosen(key, value) == Returned(key, value, SSTableBuilderAdd(sst.b, key, value))
       IN  Chosen(SstKey(sst.stride * (Len(sst.added) + 1)),
                  IF Len(sst.added) + 1 = sst.tomb THEN <<0>>
                  ELSE SstValue(Len(sst.added) + 1, sst.value_len))
    /\ nops' = IF sst.b.finished THEN nops + 1 ELSE nops
    /\ SstFrame

\* SSTableBuilder::Finish.
SstFinish ==
    /\ sst.b.finished => SstLate
    /\ sst.added # <<>>
    /\ LET Returned(r, f) ==
               /\ sst' = [sst EXCEPT !.b = r.b,
                                     !.blocks = BlocksAfter(f.b.file, Len(f.b.file) - 5)]
               /\ last' = [NoCall EXCEPT !.op = "Finish", !.status = r.status]
       IN  Returned(SSTableBuilderFinish(sst.b), FlushDataBlock(sst.b))
    /\ nops' = IF sst.b.finished THEN nops + 1 ELSE nops
    /\ SstFrame

\* The positions of a data block's body at which a byte is changed: all of a
\* body of up to SstTamperAll bytes; of a longer body the first byte, the last
\* (of the restart count) and every SstTamperEvery-th.
SstTamperAll == 64
SstTamperEvery == 1024

Tampered(block) ==
    {i \in (block.from + 1)..block.to :
        \/ block.to - block.from <= SstTamperAll
        \/ i = block.from + 1
        \/ i = block.to
        \/ (i - block.from) % SstTamperEvery = 0}

\* The files a byte is changed in: those of up to SstTamperSmall entries and
\* the largest.
SstTamperSmall == 3

\* A byte of the body of the n-th data block is changed in the finished file:
\* its lowest bit flipped (all FALSE) or, in a body of up to SstTamperAll
\* bytes, all its bits flipped.
SstTamper(n, all) ==
    /\ sst.b.finished
    /\ nops = 0
    /\ Len(sst.added) <= SstTamperSmall \/ Len(sst.added) = MaxSstEntries
    /\ ~sst.opened
    /\ sst.damage = 0
    /\ n \in DOMAIN sst.blocks
    /\ all => sst.blocks[n].to - sst.blocks[n].from <= SstTamperAll
    /\ \E i \in Tampered(sst.blocks[n]) :
           sst' = [sst EXCEPT !.damage = i,
                              !.b.file[i] = IF all THEN 255 - @
                                            ELSE IF @ % 2 = 0 THEN @ + 1 ELSE @ - 1]
    /\ last' = [NoCall EXCEPT !.op = "Tamper"]
    /\ UNCHANGED nops
    /\ SstFrame

\* The data block whose body holds the changed byte.
DamagedBlock ==
    sst.blocks[CHOOSE n \in DOMAIN sst.blocks :
                   sst.blocks[n].from < sst.damage /\ sst.damage <= sst.blocks[n].to]

\* key is stored in the data block with the changed byte.
InDamagedBlock(key) ==
    \E j \in DamagedBlock.first..DamagedBlock.last : sst.added[j].key = key

\* SSTableReader::Open on the finished file.
SstOpen ==
    /\ sst.b.finished
    /\ nops = 0
    /\ ~sst.opened
    /\ LET Returned(r) ==
               /\ sst' = [sst EXCEPT !.opened = TRUE, !.reader = r]
               /\ last' = [NoCall EXCEPT !.op = "Open", !.status = r.status]
       IN  Returned(SSTableReaderOpen(TRUE, sst.b.file))
    /\ UNCHANGED nops
    /\ SstFrame

\* SSTableReader::Get of the i-th key of the caller's list; on a file with a
\* changed byte, of a key stored in the block that holds the byte.
SstGet(i) ==
    /\ sst.opened
    /\ ~sst.got.called
    /\ sst.damage > 0 => InDamagedBlock(SstKey(i))
    /\ LET Returned(key, r) ==
               /\ sst' = [sst EXCEPT !.got = [called |-> TRUE, key |-> key,
                                              status |-> r.status,
                                              value |-> IF r.status = "OK" THEN r.value
                                                        ELSE <<>>]]
               /\ last' = [NoCall EXCEPT !.op = "Get", !.key = key, !.status = r.status]
           Sought(key) == Returned(key, SSTableReaderGet(sst.reader, sst.b.file, key))
       IN  Sought(SstKey(i))
    /\ UNCHANGED nops
    /\ SstFrame

NextSst ==
    \/ SstAdd
    \/ SstFinish
    \/ \E n \in 1..2, all \in BOOLEAN : SstTamper(n, all)
    \/ SstOpen
    \/ \E i \in 1..(2 * MaxSstEntries + 1) : SstGet(i)

SpecSst == InitSst /\ [][NextSst]_vars

\* ---------------------- a BlockBuilder, then a BlockReader, on one block

MaxBlockEntries == 18   \* entries added to the builder
BlockRestartIntervals == {1, 2, 3, kDataRestartInterval}
BlockStrides == {1, 2, 3}

\* The i-th key of the caller's list: one to three bytes, ascending in i,
\* neighbours sharing prefixes of length 0, 1 and 2.
BlockKey(i) ==
    IF i % 9 = 0 THEN <<97 + (i \div 9)>>
    ELSE IF i % 3 = 0 THEN <<97 + (i \div 9), 97 + ((i \div 3) % 3)>>
    ELSE <<97 + (i \div 9), 97 + ((i \div 3) % 3), 97 + (i % 3)>>

\* The value written with the i-th key; every fourth is empty.
BlockValue(i) == IF i % 4 = 0 THEN <<>> ELSE <<48 + (i % 10)>>

\* A new BlockBuilder.
InitBlock ==
    /\ db = NewDB
    /\ fs = NoDirectory
    /\ last = NoCall
    /\ sess = [fresh |-> FALSE, only_put_delete |-> TRUE, all_ok |-> TRUE]
    /\ expect = [k \in Keys |-> <<>>]
    /\ flushed = <<>>
    /\ pre_close = [valid |-> FALSE, get |-> [k \in Keys |-> NotFoundResult]]
    /\ iter = NoIterator
    /\ threads = NoThreads
    /\ wal = NoWal
    /\ sst = NoSst
    /\ \E restart_interval \in BlockRestartIntervals, stride \in BlockStrides :
           blk = [NoBlk EXCEPT !.b = BlockBuilder(restart_interval), !.stride = stride]
    /\ mem = NoMem
    /\ nops = 0
    /\ nopens = 0
    /\ coding = NoCoding
    /\ nfaults = 0

BlockFrame ==
    UNCHANGED <<db, fs, sess, expect, flushed, pre_close, iter, threads, wal, sst, mem,
                nops, nopens, nfaults, coding>>

\* BlockBuilder::Add of the next key of the caller's choice.
BlockAdd ==
    /\ blk.phase = "build"
    /\ Len(blk.added) < MaxBlockEntries
    /\ LET Added(key, value) ==
               /\ blk' = [blk EXCEPT !.b = BlockBuilderAdd(@, key, value),
                                     !.added = Append(@, [key |-> key, value |-> value])]
               /\ last' = [NoCall EXCEPT !.op = "Add", !.key = key]
       IN  Added(BlockKey(blk.stride * (Len(blk.added) + 1)),
                 BlockValue(Len(blk.added) + 1))
    /\ BlockFrame

\* BlockBuilder::Finish, and a BlockReader constructed on the bytes.
BlockFinish ==
    /\ blk.phase = "build"
    /\ blk.added # <<>>
    /\ LET Finished(data) ==
               blk' = [blk EXCEPT !.phase = "built", !.data = data,
                                  !.r = BlockReader(data)]
       IN  Finished(BlockBuilderFinish(blk.b))
    /\ last' = [NoCall EXCEPT !.op = "Finish"]
    /\ BlockFrame

\* BlockReader::Seek to the i-th key of the caller's list.
BlockSeek(i) ==
    /\ blk.phase = "built"
    /\ LET Returned(target, s) ==
               /\ blk' = [blk EXCEPT !.phase = "sought", !.r = s.r, !.target = target,
                                     !.status = s.status]
               /\ last' = [NoCall EXCEPT !.op = "Seek", !.key = target, !.status = s.status]
           Sought(target) == Returned(target, BlockReaderSeek(blk.r, target))
       IN  Sought(BlockKey(i))
    /\ BlockFrame

\* What a scan has seen once a call left the reader as in d.
SeenAfter(d) ==
    IF BlockReaderValid(d.r)
    THEN Append(blk.seen, [key |-> d.r.current_key, value |-> d.r.current_value])
    ELSE blk.seen

\* BlockReader::SeekToFirst.
BlockSeekToFirst ==
    /\ blk.phase = "built"
    /\ LET Returned(d) ==
               /\ blk' = [blk EXCEPT !.phase = "scan", !.r = d.r, !.status = d.status,
                                     !.seen = SeenAfter(d)]
               /\ last' = [NoCall EXCEPT !.op = "SeekToFirst", !.status = d.status]
       IN  Returned(BlockReaderSeekToFirst(blk.r))
    /\ BlockFrame

\* BlockReader::Next in a scan: while (reader.Valid()) { ...; reader.Next(); }.
BlockNext ==
    /\ blk.phase = "scan"
    /\ BlockReaderValid(blk.r)
    /\ LET Returned(d) ==
               /\ blk' = [blk EXCEPT !.r = d.r, !.status = d.status, !.seen = SeenAfter(d)]
               /\ last' = [NoCall EXCEPT !.op = "Next", !.status = d.status]
       IN  Returned(BlockReaderNext(blk.r))
    /\ BlockFrame

NextBlock ==
    \/ BlockAdd
    \/ BlockFinish
    \/ \E i \in 1..(3 * MaxBlockEntries + 1) : BlockSeek(i)
    \/ BlockSeekToFirst
    \/ BlockNext

SpecBlock == InitBlock /\ [][NextBlock]_vars

\* ------------------------- a BlockReader on bytes no BlockBuilder wrote

RawKeys == {<<97>>, <<97, 98>>}
RawValues == {<<>>, <<49>>}
MaxRawShared == 3       \* shared-prefix length of the second entry, 0 ..
MaxRawKeyLen == 2       \* its non-shared key length, 0 ..
RawValueLens == {0, 1, 2, 200}
MaxRawMissing == 3      \* bytes cut off the end of the second entry, 0 ..
RawKeyBytes == <<120, 121>>
RawValueBytes == <<50, 51>>

\* The bytes of an entry as block_builder.cpp lays them out: three varints,
\* the non-shared key bytes, the value bytes.
RawEntry(shared_len, non_shared_key, value_len, value) ==
    EncodeVarint32(shared_len) \o EncodeVarint32(Len(non_shared_key))
        \o EncodeVarint32(value_len) \o non_shared_key \o value

\* The block of a first entry with its full key, then a second entry of the
\* given lengths with only its first bytes kept, then the restart array of
\* one restart point (offset 0) and its count.
RawSecond(raw) ==
    LET whole == RawEntry(raw.shared_len, SubSeq(RawKeyBytes, 1, raw.key_len),
                          raw.value_len,
                          SubSeq(RawValueBytes, 1, Min(raw.value_len, Len(RawValueBytes))))
    IN  SubSeq(whole, 1, Len(whole) - raw.missing)

RawBlock(raw) ==
    RawEntry(0, raw.key, Len(raw.value), raw.value) \o RawSecond(raw)
        \o EncodeFixed32(0) \o EncodeFixed32(1)

\* A BlockReader constructed on a block of two entries, the second of any
\* lengths and cut anywhere.
InitDecode ==
    /\ db = NewDB
    /\ fs = NoDirectory
    /\ last = NoCall
    /\ sess = [fresh |-> FALSE, only_put_delete |-> TRUE, all_ok |-> TRUE]
    /\ expect = [k \in Keys |-> <<>>]
    /\ flushed = <<>>
    /\ pre_close = [valid |-> FALSE, get |-> [k \in Keys |-> NotFoundResult]]
    /\ iter = NoIterator
    /\ threads = NoThreads
    /\ wal = NoWal
    /\ sst = NoSst
    /\ \E key \in RawKeys, value \in RawValues, shared_len \in 0..MaxRawShared,
          key_len \in 0..MaxRawKeyLen, value_len \in RawValueLens,
          missing \in 0..MaxRawMissing :
           /\ shared_len + key_len > 0      \* no entry declares an empty key
           /\ LET Built(raw, data) ==
                      blk = [NoBlk EXCEPT !.phase = "built", !.raw = raw, !.data = data,
                                          !.r = BlockReader(data)]
                  Drawn(raw) == Built(raw, RawBlock(raw))
              IN  Drawn([key |-> key, value |-> value, shared_len |-> shared_len,
                         key_len |-> key_len, value_len |-> value_len,
                         missing |-> missing])
    /\ mem = NoMem
    /\ nops = 0
    /\ nopens = 0
    /\ coding = NoCoding
    /\ nfaults = 0

NextDecode ==
    \/ BlockSeekToFirst
    \/ BlockNext

SpecDecode == InitDecode /\ [][NextDecode]_vars

\* ------------------------------- EncodeVarint32 and DecodeVarint32 alone

MaxVarintBytes == 5     \* bytes in a buffer given to DecodeVarint32, 0 ..
VarintBytes == {0, 1, 16, 127, 128, 255}
VarintValues ==
    {0, 1, 127, 128, 129, 255, 300, 16383, 16384, 16385, 2097151, 2097152,
     268435455, 268435456, 1073741824, 2147483646, 2147483647}
VarintBuffers == UNION {[1..k -> VarintBytes] : k \in 0..MaxVarintBytes}

\* A value to encode, or a buffer and the length to decode from.
InitVarint ==
    /\ db = NewDB
    /\ fs = NoDirectory
    /\ last = NoCall
    /\ sess = [fresh |-> FALSE, only_put_delete |-> TRUE, all_ok |-> TRUE]
    /\ expect = [k \in Keys |-> <<>>]
    /\ flushed = <<>>
    /\ pre_close = [valid |-> FALSE, get |-> [k \in Keys |-> NotFoundResult]]
    /\ iter = NoIterator
    /\ threads = NoThreads
    /\ wal = NoWal
    /\ sst = NoSst
    /\ blk = NoBlk
    /\ mem = NoMem
    /\ \/ \E n \in VarintValues : coding = [NoCoding EXCEPT !.n = n]
       \/ \E src \in VarintBuffers, max_len \in 0..MaxVarintBytes :
              /\ max_len <= Len(src)
              /\ coding = [NoCoding EXCEPT !.src = src, !.max_len = max_len,
                                           !.op = "drawn"]
    /\ nops = 0
    /\ nopens = 0
    /\ nfaults = 0

CodingFrame ==
    UNCHANGED <<db, fs, last, sess, expect, flushed, pre_close, iter, threads, wal, sst,
                blk, mem, nops, nopens, nfaults>>

\* EncodeVarint32(dst, n): the bytes written and their number.
VarintEncode ==
    /\ coding.op = "none"
    /\ coding.n >= 0
    /\ LET Written(bytes) ==
               coding' = [coding EXCEPT !.src = bytes, !.max_len = Len(bytes),
                                        !.count = Len(bytes), !.op = "encoded"]
       IN  Written(EncodeVarint32(coding.n))
    /\ CodingFrame

\* DecodeVarint32(src, max_len, &value); value is stored to only on success.
VarintDecode ==
    /\ coding.op \in {"drawn", "encoded"}
    /\ LET Returned(v) ==
               coding' = [coding EXCEPT !.op = "decoded", !.len = v.len,
                                        !.value = IF v.len < 0 THEN @ ELSE v.value]
       IN  Returned(DecodeVarint32(coding.src, coding.max_len))
    /\ CodingFrame

NextVarint ==
    \/ VarintEncode
    \/ VarintDecode

SpecVarint == InitVarint /\ [][NextVarint]_vars

\* ------------------------------------------------------------- the claims

OkResult(value) == [status |-> "OK", value |-> value]

\* The stored bytes of a tombstone.
Tombstone == <<0>>

InLive(key) == key \in DOMAIN db.memtable_.table

InSealed(key) == db.imm_memtable_ # <<>> /\ key \in DOMAIN db.imm_memtable_[1].table

\* The catalog entries (positions, in creation order) whose file was written
\* with an entry for key.
FilesWith(key) == {i \in 1..Len(flushed) : key \in DOMAIN flushed[i]}

Newest(files) == CHOOSE i \in files : \A j \in files : j <= i

\* C1: after successful Put and Delete calls only, on a database that was
\* created empty, Get(k) returns OK with the value of the last Put on k, and
\* NotFound when the last operation on k was a Delete or k was never written;
\* this includes runs in which the MemTable was sealed and flushed.
C1_GetReturnsLastWrite ==
    (db.open /\ sess.fresh /\ sess.only_put_delete) =>
        \A k \in DOMAIN expect :
            GetResult(db, fs, k) =
                IF expect[k] = <<>> THEN NotFoundResult ELSE OkResult(expect[k][1])

\* C2: after a session of successful Put/Delete/Write calls, a close and a
\* re-open on the same directory, Get(k) returns for every k the status and
\* value it returned just before the close.
C2_ReopenPreservesGets ==
    (db.open /\ last.op = "Open" /\ last.status = "OK" /\ pre_close.valid) =>
        \A k \in Keys : GetResult(db, fs, k) = pre_close.get[k]

\* C3: while the live MemTable holds a tombstone for k, Get(k) returns
\* NotFound, whatever the sealed MemTable and the SSTables hold for k.
C3_LiveTombstoneHides ==
    db.open =>
        \A k \in Keys :
            (InLive(k) /\ db.memtable_.table[k] = Tombstone) =>
                GetResult(db, fs, k).status = "NotFound"

\* C4: when Get(k) comes to the catalog (k is in neither MemTable) and the
\* newest SSTable with an entry for k holds a tombstone, Get(k) returns
\* NotFound, whatever older SSTables hold for k.
C4_NewestTombstoneHides ==
    db.open =>
        \A k \in Keys :
            (/\ ~InLive(k)
             /\ ~InSealed(k)
             /\ FilesWith(k) # {}
             /\ flushed[Newest(FilesWith(k))][k] = Tombstone) =>
                GetResult(db, fs, k).status = "NotFound"

\* C5: when k was written with different values that went to several flushed
\* SSTables and k is in neither MemTable, Get(k) returns OK with the value in
\* the most recently created SSTable that has an entry for k.
C5_NewestValueWins ==
    db.open =>
        \A k \in DOMAIN expect :
            (/\ ~InLive(k)
             /\ ~InSealed(k)
             /\ \A i \in FilesWith(k) : flushed[i][k] # Tombstone
             /\ \E i, j \in FilesWith(k) : flushed[i][k] # flushed[j][k]) =>
                GetResult(db, fs, k) = OkResult(flushed[Newest(FilesWith(k))][k])

\* C6: WriteBatch::Iterate hands the handler the batch's operations in the
\* order they were added, so after DB::Write Get(k) is what the operations
\* applied one by one in that order give; for [Put(k,v1), Delete(k),
\* Put(k,v2), Put(k,v3)] that is v3.
C6_BatchInsertionOrder ==
    (last.op = "Write" /\ last.status = "OK") =>
        /\ Iterate(WriteBatchOf(last.batch, Len(last.batch))) = last.batch
        /\ \A k \in Keys :
               GetResult(db, fs, k) =
                   IF expect[k] = <<>> THEN NotFoundResult ELSE OkResult(expect[k][1])

\* A step that is a call of op.
IsCall(ops) == nops' = nops + 1 /\ last'.op \in ops

Count(seq, x) == Cardinality({i \in DOMAIN seq : seq[i] = x})

SameBag(s, t) == Len(s) = Len(t) /\ \A i \in DOMAIN s : Count(s, s[i]) = Count(t, s[i])

\* The step left the MemTables and the catalog as they were.
MemTableUnchanged ==
    /\ db'.memtable_ = db.memtable_
    /\ db'.imm_memtable_ = db.imm_memtable_
    /\ db'.sstable_files_ = db.sstable_files_

\* The step added nothing to the WAL.
NoneLogged == fs'.log = fs.log

\* The step added to the WAL one whole record per operation of calls.
AllLogged(calls) ==
    /\ Len(fs'.log) >= Len(fs.log)
    /\ SubSeq(fs'.log, 1, Len(fs.log)) = fs.log
    /\ LET r == Replay(SubSeq(fs'.log, Len(fs.log) + 1, Len(fs'.log)))
       IN  r.status = "OK" /\ SameBag(r.delivered, calls)

\* The table that took the step's updates: the one flushed, or sealed, in the
\* step, else the live one.
UpdatedTable ==
    IF Len(flushed') > Len(flushed) THEN flushed'[Len(flushed')]
    ELSE IF db'.imm_memtable_ # <<>> /\ db'.imm_memtable_ # db.imm_memtable_
    THEN db'.imm_memtable_[1].table
    ELSE db'.memtable_.table

\* The step applied every operation of calls to the live MemTable.
AllApplied(calls) == UpdatedTable = BatchHandler(db.memtable_, calls, Len(calls)).table

\* C7: after DB::Write returns, OK or not, either every operation of the
\* batch has a WAL record and is applied to the MemTable, or none has a WAL
\* record and none is applied.
C7_WriteAllOrNothing ==
    [][IsCall({"Write"}) =>
           LET calls == Iterate(WriteBatchOf(last'.batch, Len(last'.batch)))
           IN  \/ AllLogged(calls) /\ AllApplied(calls)
               \/ NoneLogged /\ MemTableUnchanged]_vars

\* The status of the WAL pass of DB::Write(batch) in the current state with
\* the failure io; "OK" too when the call returns before the pass.
WalPassStatus(batch, io) ==
    LET e == EnsureWALOpen(db, fs) IN
    IF e.status # "OK" THEN "OK"
    ELSE BatchWALHandler(e.db.wal_writer_, e.fs.log,
                         Iterate(WriteBatchOf(batch, Len(batch))), 1, io).status

\* C8: when a WAL append fails for an operation of the batch during
\* DB::Write, Write returns that error and the MemTables are as they were
\* before the call.
C8_FailedAppendLeavesMemTable ==
    [][(IsCall({"Write"}) /\ WalPassStatus(last'.batch, last'.io) # "OK") =>
           /\ last'.status = WalPassStatus(last'.batch, last'.io)
           /\ MemTableUnchanged]_vars

\* C8's case: the append of a batch's second operation failed, after the first
\* operation's record went to the WAL, on a MemTable that holds entries.
C8_Witness ==
    /\ last.op = "Write"
    /\ last.io.append_at = 2
    /\ last.status = "IOError"
    /\ Len(fs.log) > 0
    /\ ~MemTableEmpty(db.memtable_)

\* The record DB::Put or DB::Delete appends for the call recorded in c.
RecordOf(c) ==
    EncodeRecord(IF c.op = "Put" THEN kPut ELSE kDelete, c.key, c.value)

\* C9: a DB::Put or DB::Delete that changes the MemTable has appended its
\* whole WAL record (and synced it when asked to), and one whose AddRecord or
\* Sync failed returns that error and leaves the MemTable as it was.
C9_WalBeforeMemTable ==
    [][IsCall({"Put", "Delete"}) =>
           /\ db'.wal_writer_.failed => (last'.status = "IOError" /\ MemTableUnchanged)
           /\ ~MemTableUnchanged =>
                  (fs'.log = fs.log \o RecordOf(last') /\ ~db'.wal_writer_.failed)]_vars

\* C9's case: the Sync of a Put failed after its record was appended, and the
\* key is not in the MemTable.
C9_Witness ==
    /\ last.op = "Put"
    /\ last.io.sync
    /\ last.status = "IOError"
    /\ db.wal_writer_.failed
    /\ Len(fs.log) >= Len(RecordOf(last))
    /\ SubSeq(fs.log, Len(fs.log) - Len(RecordOf(last)) + 1, Len(fs.log)) = RecordOf(last)
    /\ ~InLive(last.key)

\* What Get returns per key from database directory d once it is opened.
GetsAfterOpen(d) ==
    LET Opened(o) ==
            [opened |-> o.status = "OK",
             get |-> [k \in Keys |-> IF o.status = "OK" THEN GetResult(o.db, o.fs, k)
                                     ELSE NotFoundResult]]
    IN  Opened(DBOpen(FreshOptions(DefaultOptions.write_buffer_size), d))

\* C10: a Put, Delete or Write that returns a non-OK status changes no
\* Get(k): not in the session, and not after a close and re-open.
C10_FailedWriteInvisible ==
    [][(IsCall({"Put", "Delete", "Write"}) /\ last'.status # "OK") =>
           LET Reopened(before, after) ==
                   (before.opened /\ after.opened) => after.get = before.get
           IN  /\ \A k \in Keys : GetResult(db', fs', k) = GetResult(db, fs, k)
               /\ Reopened(GetsAfterOpen(fs), GetsAfterOpen(fs'))]_vars

\* The operations of the WAL records of log, in the order of the records.
LoggedOps(log) == Replay(log).delivered

\* C11: calls on one DB object from several threads exclude each other: at
\* most one thread is inside a Put/Delete at a time, no thread meets a
\* half-finished seal (memtable_ moved from and not yet reset), and once
\* all calls have returned the WAL holds the records in the order in which
\* the MemTable took the updates.
C11_CallsMutuallyExclusive ==
    /\ Cardinality({t \in Threads : threads.call[t].pc # "idle"}) <= 1
    /\ ~threads.crashed
    /\ (\A t \in Threads : threads.call[t].pc = "idle") =>
           LoggedOps(fs.log) = threads.applied

\* C12: the table an outstanding Iterator was created on is alive, in
\* memtable_ or in imm_memtable_, whatever Put and Delete calls sealed and
\* flushed since, and a scan of the iterator yields that table's entries.
C12_IteratorTableAlive ==
    iter.outstanding =>
        /\ iter.on \in {"live", "sealed"}
        /\ iter.scanned => iter.seen = TableScan(iter.table)

\* The file SSTableBuilder writes for the entries of table.
BuiltFile(table) ==
    LET Added(added) == SSTableBuilderFinish(added.b).b.file
    IN  Added(AddEntries(SSTableBuilder(TRUE, TRUE), TableScan(table), 1,
                         Cardinality(DOMAIN table)))

\* Where database d with directory f holds an entry for key k: in the live
\* MemTable, in the sealed MemTable, in the i-th file of the catalog (fl: the
\* tables the catalog's files were written from).
Holders(d, f, fl, k) ==
    (IF k \in DOMAIN d.memtable_.table THEN {<<"live", 0>>} ELSE {})
        \cup (IF d.imm_memtable_ # <<>> /\ k \in DOMAIN d.imm_memtable_[1].table
              THEN {<<"sealed", 0>>} ELSE {})
        \cup {<<"file", i>> : i \in {j \in 1..Len(d.sstable_files_) :
                                        /\ j <= Len(fl)
                                        /\ k \in DOMAIN fl[j]
                                        /\ d.sstable_files_[j] \in DOMAIN f.sst}}

\* The value holder h has for k.
HeldValue(d, fl, k, h) ==
    IF h[1] = "live" THEN d.memtable_.table[k]
    ELSE IF h[1] = "sealed" THEN d.imm_memtable_[1].table[k]
    ELSE fl[h[2]][k]

\* C13: a Put, Delete or Write leaves a sealed MemTable in place unless its
\* SSTable was finished and added to the catalog in that call: a table that
\* was sealed before the call stays, a table sealed in a call whose flush
\* fails stays, a catalog entry is added only with its finished file on
\* disk, and the files of the catalog are not touched again.  So every key held before the call (by the live MemTable, the
\* sealed MemTable or a catalogued SSTable) is held after it, so is every
\* key the call updated, and Get returns the value of a key that has one
\* holder.
C13_SealedKeptUntilCatalogued ==
    [][IsCall({"Put", "Delete", "Write"}) =>
           /\ db.imm_memtable_ # <<>> => db'.imm_memtable_ = db.imm_memtable_
           /\ (db.imm_memtable_ = <<>> /\ db'.imm_memtable_ = <<>>
                 /\ db'.sstable_files_ = db.sstable_files_) =>
                  DOMAIN db.memtable_.table \subseteq DOMAIN db'.memtable_.table
           /\ db'.sstable_files_ # db.sstable_files_ =>
                  /\ Len(db'.sstable_files_) = Len(db.sstable_files_) + 1
                  /\ SubSeq(db'.sstable_files_, 1, Len(db.sstable_files_)) = db.sstable_files_
                  /\ db'.sstable_files_[Len(db'.sstable_files_)] \in DOMAIN fs'.sst
                  /\ fs'.sst[db'.sstable_files_[Len(db'.sstable_files_)]] =
                         BuiltFile(flushed'[Len(flushed')])
           /\ \A j \in 1..Len(db.sstable_files_) :
                  /\ db.sstable_files_[j] \in DOMAIN fs'.sst
                  /\ fs'.sst[db.sstable_files_[j]] = fs.sst[db.sstable_files_[j]]
           /\ \A k \in Keys :
                  LET After(before, after) ==
                          /\ before # {} => after # {}
                          /\ k \in DOMAIN UpdatedTable => after # {}
                          /\ \A h \in after :
                                 (after = {h} /\ HeldValue(db', flushed', k, h) # Tombstone) =>
                                     GetResult(db', fs', k) =
                                         OkResult(HeldValue(db', flushed', k, h))
                  IN  After(Holders(db, fs, flushed, k),
                            Holders(db', fs', flushed', k))]_vars

\* C13's case: a call sealed the MemTable and its flush failed, after an
\* earlier flush had added a file to the catalog; the sealed table is in place.
C13_Witness ==
    /\ last.op \in {"Put", "Delete", "Write"}
    /\ last.io.flush # "none"
    /\ last.status = "IOError"
    /\ db.imm_memtable_ # <<>>
    /\ Len(db.sstable_files_) = 1

\* C14: DB::Open returns InvalidArgument when the directory exists and
\* error_if_exists is set, whatever create_if_missing is; it returns NotFound
\* when the directory is absent and create_if_missing is false; it creates
\* the directory when it is absent and create_if_missing is true.
C14_OpenDirectoryRules ==
    [][\A options \in OpenOptions :
           Open(options) =>
               /\ (fs.dir_exists /\ options.error_if_exists) =>
                      last'.status = "InvalidArgument" /\ ~db'.open
               /\ (~fs.dir_exists /\ ~options.create_if_missing) =>
                      last'.status = "NotFound" /\ ~db'.open /\ ~fs'.dir_exists
               /\ (~fs.dir_exists /\ options.create_if_missing) =>
                      fs'.dir_exists]_vars

\* The offset in the log at which the j-th record written starts.
RECURSIVE RecordOffset(_, _)
RecordOffset(written, j) ==
    IF j <= 1 THEN 0
    ELSE RecordOffset(written, j - 1)
             + RecordLength(written[j - 1].key, written[j - 1].value)

\* The positions (from 1) of the type bytes of the records written.
TypeBytes(written) == {RecordOffset(written, j) + 1 : j \in DOMAIN written}

\* The log's damage is one the reader comes to as a failed read or a failed
\* checksum comparison: a record cut short, or a changed byte other than a
\* type byte that now reads as the end-of-log marker.
MeetsDamage ==
    \/ wal.damage = "truncated"
    \/ /\ wal.damage = "tampered"
       /\ ~(wal.at \in TypeBytes(wal.written) /\ fs.log[wal.at] = kEof)

\* C15: when the replay in DB::Open meets a checksum mismatch or a truncated
\* record, Open returns the replay's non-OK status and hands no DB object to
\* the caller, whatever records were replayed before the damaged one.
C15_ReplayFailureFailsOpen ==
    (last.op = "Open" /\ MeetsDamage) =>
        /\ last.status \in {"IOError", "Corruption"}
        /\ last.status = Replay(fs.log).status
        /\ db = NewDB

\* C15's case: Open failed on a log whose first record replayed and whose
\* second record has a changed byte.
C15_Witness ==
    /\ last.op = "Open"
    /\ wal.damage = "tampered"
    /\ wal.at > RecordOffset(wal.written, 2) + 9
    /\ Len(wal.written) = 2
    /\ Replay(fs.log).delivered # <<>>
    /\ last.status = "Corruption"

\* What ReadRecord returns for a record that reads back as written.
ReadBack(rec) ==
    [ret |-> TRUE, type |-> rec.type, key |-> rec.key, value |-> rec.value,
     status |-> "OK"]

\* The reader got every record written in full, in order, before its last call.
ReadAllWritten ==
    /\ Len(wal.read) = Len(wal.written) + 1
    /\ \A j \in DOMAIN wal.written : wal.read[j] = ReadBack(wal.written[j])

RecordAt(written, i) ==
    CHOOSE j \in DOMAIN written :
        /\ RecordOffset(written, j) < i
        /\ i <= RecordOffset(written, j) + RecordLength(written[j].key, written[j].value)

\* C17: after one byte of an encoded record was changed (its type, a
\* length, the key, the value or the checksum), ReadRecord returns the records
\* before it as written and for the changed record returns false with a
\* non-OK status: the record is not returned with another type, key or value,
\* and the log does not read as ending cleanly there.
C17_TamperedRecordRejected ==
    (wal.damage = "tampered" /\ wal.done) =>
        /\ Len(wal.read) = RecordAt(wal.written, wal.at)
        /\ \A j \in 1..(Len(wal.read) - 1) : wal.read[j] = ReadBack(wal.written[j])
        /\ ~wal.read[Len(wal.read)].ret
        /\ wal.read[Len(wal.read)].status \in {"IOError", "Corruption"}

\* C18: ReadRecord on a record whose type byte is none of Put, Delete,
\* Sync and Eof returns false with status Corruption, also when the record's
\* checksum was computed over that type byte (the record is as AddRecord
\* wrote it).
C18_UnknownTypeIsCorruption ==
    wal.damage = "none" =>
        \A j \in DOMAIN wal.read :
            (j \in DOMAIN wal.written /\ wal.written[j].type \in UnknownTypes) =>
                /\ ~wal.read[j].ret
                /\ wal.read[j].status = "Corruption"

\* C19: after AddRecord calls with types Put and Delete and a Close,
\* successive ReadRecord calls return true with status OK and the type, key
\* and value of the records in the order written, empty keys and empty
\* values included, and the call after the last record returns false with
\* status OK.
C19_WalRoundTrip ==
    (wal.damage = "none"
       /\ \A j \in DOMAIN wal.written : wal.written[j].type \in {kPut, kDelete}) =>
        /\ Len(wal.read) <= Len(wal.written) + 1
        /\ \A j \in DOMAIN wal.read :
               IF j \in DOMAIN wal.written
               THEN wal.read[j] = ReadBack(wal.written[j])
               ELSE ~wal.read[j].ret /\ wal.read[j].status = "OK"
        /\ wal.done <=> Len(wal.read) = Len(wal.written) + 1

\* C19's case: a Put with an empty key and a Delete with an empty value were
\* written and read back, and the reader came to the end of the file.
C19_Witness ==
    /\ wal.damage = "none"
    /\ wal.done
    /\ Len(wal.written) = 2
    /\ wal.written[1] = [type |-> kPut, key |-> <<>>, value |-> <<49>>]
    /\ wal.written[2] = [type |-> kDelete, key |-> <<97>>, value |-> <<>>]
    /\ Len(wal.read) = 3

\* The entries added whose key is key.
AddedWith(key) == {j \in DOMAIN sst.added : sst.added[j].key = key}

\* C20: on a finished SSTable built from a strictly ascending sequence of
\* keys, of any length, SSTableReader::Get returns OK with the written value
\* for a written key whose value is not the deletion marker, and NotFound for
\* a key that was not written.
C20_SSTableGetFindsWritten ==
    (sst.got.called /\ sst.damage = 0) =>
        /\ \A j \in AddedWith(sst.got.key) :
               ~IsDeletionMarker(sst.added[j].value) =>
                   /\ sst.got.status = "OK"
                   /\ sst.got.value = sst.added[j].value
        /\ AddedWith(sst.got.key) = {} => sst.got.status = "NotFound"

\* The entries of the block under test whose key is >= target.
AtOrAfter(target) == {j \in DOMAIN blk.added : StrGreaterEq(blk.added[j].key, target)}

\* C21: after BlockReader::Seek(target) on a block built from strictly
\* ascending keys, with any restart interval and any number of entries, the
\* reader is at the entry with the smallest key >= target, and it is not Valid
\* exactly when the block has no key >= target.
C21_SeekFindsFirstAtOrAfter ==
    blk.phase = "sought" =>
        LET Positioned(ge) ==
                IF ge = {} THEN ~BlockReaderValid(blk.r)
                ELSE /\ BlockReaderValid(blk.r)
                     /\ \E j \in ge :
                            /\ \A n \in ge : j <= n
                            /\ blk.r.current_key = blk.added[j].key
                            /\ blk.r.current_value = blk.added[j].value
        IN  Positioned(AtOrAfter(blk.target))

\* C22: BlockReader::SeekToFirst followed by Next while the reader is
\* Valid yields the (key, value) pairs added to the BlockBuilder, in the order
\* added, whatever the restart interval and the prefixes the keys share, and
\* the reader is not Valid once the last pair was passed, not before.
C22_ScanYieldsAdded ==
    blk.phase = "scan" =>
        /\ blk.seen # <<>>
        /\ Len(blk.seen) <= Len(blk.added)
        /\ blk.seen = SubSeq(blk.added, 1, Len(blk.seen))
        /\ ~BlockReaderValid(blk.r) => Len(blk.seen) = Len(blk.added)

\* C22's case: a block with a restart point every second entry, of keys
\* sharing prefixes, was scanned to its end.
C22_Witness ==
    /\ blk.phase = "scan"
    /\ ~BlockReaderValid(blk.r)
    /\ blk.b.restart_interval = 2
    /\ blk.stride = 1
    /\ Len(blk.seen) = MaxBlockEntries

\* C23: after a byte of a data block's body was changed in a finished
\* SSTable file, SSTableReader::Get of a key stored in that block returns
\* Corruption, never OK with some value and never NotFound.
C23_DamagedBlockIsCorruption ==
    (sst.got.called /\ sst.damage > 0 /\ InDamagedBlock(sst.got.key)) =>
        sst.got.status = "Corruption"

\* C23's case: a byte of the second data block of a file was changed and a
\* key of that block was looked up.
C23_Witness ==
    /\ sst.got.called
    /\ sst.damage > 0
    /\ Len(sst.blocks) = 2
    /\ sst.damage > sst.blocks[2].from
    /\ InDamagedBlock(sst.got.key)
    /\ sst.got.status = "Corruption"

\* The first status other than OK and NotFound that the lookup of key meets in
\* the files sstable_files_[1..i], newest (last) first, up to the file that
\* holds the key: "none" if there is no such status.
RECURSIVE SSTableErrorMet(_, _, _, _)
SSTableErrorMet(db_, fs_, key, i) ==
    LET Got(g) ==
            IF g.status = "OK" THEN "none"
            ELSE IF g.status = "NotFound" THEN SSTableErrorMet(db_, fs_, key, i - 1)
            ELSE g.status
        Opened(reader, file) ==
            IF reader.status = "NotFound" THEN SSTableErrorMet(db_, fs_, key, i - 1)
            ELSE IF reader.status # "OK" THEN reader.status
            ELSE Got(SSTableReaderGet(reader, file, key))
        Named(exists, file) == Opened(SSTableReaderOpen(exists, file), file)
        File(n) == Named(n \in DOMAIN fs_.sst, IF n \in DOMAIN fs_.sst THEN fs_.sst[n] ELSE <<>>)
    IN  IF i = 0 THEN "none"
        ELSE File(db_.sstable_files_[i])

\* DB::Get of key looks into the SSTable files: neither MemTable holds a
\* value for it.
ReachesSSTables(key) ==
    /\ ~MemTableGet(db.memtable_, key).found
    /\ db.imm_memtable_ = <<>> \/ ~MemTableGet(db.imm_memtable_[1], key).found

\* C24: when DB::Get looks into the SSTable files and a file it comes to
\* cannot be opened or a block of it fails the CRC check, DB::Get returns
\* that Corruption or IOError status, not NotFound and not a value from an
\* older file.
C24_GetReportsSSTableError ==
    (last.op = "Get" /\ ReachesSSTables(last.key)) =>
        LET Reported(met) == met # "none" => last.status = met
        IN  Reported(SSTableErrorMet(db, fs, last.key, Len(db.sstable_files_)))

\* C25: after MemTableIterator::Seek(target) the iterator is at the smallest
\* stored key >= target, and is not Valid if and only if there is none.
C25_MemSeekIsLowerBound ==
    last.op = "Seek" =>
        LET ge == {k \in DOMAIN mem.m.table : StrGreaterEq(k, last.key)}
        IN  /\ MemTableIteratorValid(mem.it) <=> ge # {}
            /\ MemTableIteratorValid(mem.it) =>
                   /\ MemTableIteratorKey(mem.it) \in ge
                   /\ \A k \in ge : StrGreaterEq(k, MemTableIteratorKey(mem.it))

\* C25's case: a Seek to a target that is not stored, between two stored
\* keys, stopped at the key after it.
C25_Witness ==
    /\ last.op = "Seek"
    /\ last.key = <<97, 98>>
    /\ DOMAIN mem.m.table = MemKeys
    /\ MemTableIteratorValid(mem.it)
    /\ MemTableIteratorKey(mem.it) = <<98>>

\* The iterator before its last call was at the first entry of the map.
WasAtFirst ==
    /\ MemTableIteratorValid(mem.was)
    /\ \A k \in DOMAIN mem.m.table : StrGreaterEq(k, mem.was.key)

C27_PrevFromFirstEndsScan ==
    (last.op = "Prev" /\ MemTableIteratorValid(mem.was)) =>
        (MemTableIteratorValid(mem.it) <=> ~WasAtFirst)

\* The sum, over the entries of the map, of key length plus stored value
\* length.
RECURSIVE StoredBytes(_, _)
StoredBytes(table, ks) ==
    IF ks = {} THEN 0
    ELSE LET Rest(k) == Len(k) + Len(table[k]) + StoredBytes(table, ks \ {k})
         IN  Rest(CHOOSE k \in ks : TRUE)

\* C30: MemTable::ApproximateSize is the sum over the stored entries of key
\* length plus stored value length, a deletion marker counting one byte.
C30_ApproximateSizeIsStoredBytes ==
    mem.m.approximate_size = StoredBytes(mem.m.table, DOMAIN mem.m.table)

\* C30's case: MaxMemCalls calls, the last a Delete, have left two entries,
\* one of them with a value of two bytes.
C30_Witness ==
    /\ nops = MaxMemCalls
    /\ last.op = "Delete"
    /\ Cardinality(DOMAIN mem.m.table) = 2
    /\ \E k \in DOMAIN mem.m.table : mem.m.table[k] = <<50, 50>>
    /\ mem.m.approximate_size = StoredBytes(mem.m.table, DOMAIN mem.m.table)

\* A caller has just scanned, from SeekToFirst by Next to the end, an iterator
\* DB::NewIterator returned, on a database whose calls all returned OK.
FullScanDone ==
    /\ iter.outstanding
    /\ iter.on = "live"
    /\ iter.scanned
    /\ sess.all_ok

\* C28: a full scan of the iterator DB::NewIterator returns yields no deleted
\* key: no entry whose key was deleted last, and no deletion marker as a
\* value.
C28_ScanYieldsNoDeletedKey ==
    FullScanDone =>
        \A i \in DOMAIN iter.seen :
            /\ ~IsDeletionMarker(iter.seen[i].value)
            /\ expect[iter.seen[i].key] # <<>>

\* C29: a full scan of the iterator DB::NewIterator returns yields every key
\* for which DB::Get returns OK, with the value Get returns, also when the
\* entry was flushed to an SSTable, and yields the keys in ascending order.
C29_ScanYieldsEveryKeyGetFinds ==
    FullScanDone =>
        /\ \A k \in Keys :
               GetResult(db, fs, k).status = "OK" =>
                   \E i \in DOMAIN iter.seen :
                       /\ iter.seen[i].key = k
                       /\ iter.seen[i].value = GetResult(db, fs, k).value
        /\ \A i, j \in DOMAIN iter.seen :
               i < j => StrLess(iter.seen[i].key, iter.seen[j].key)

\* C31: after a Put, Delete or Write that returned OK, with no sealed
\* MemTable left, the live MemTable is smaller than write_buffer_size: a live
\* MemTable of write_buffer_size bytes or more was sealed and flushed, and the
\* live MemTable installed in its place is empty.
C31_SealedAtWriteBufferSize ==
    (/\ last.op \in {"Put", "Delete", "Write"}
     /\ last.status = "OK"
     /\ db.imm_memtable_ = <<>>
     /\ db.options_.write_buffer_size > 0) =>
        db.memtable_.approximate_size < db.options_.write_buffer_size

\* C32: a call of SSTableBuilder::Add or SSTableBuilder::Finish on a builder
\* whose Finish has succeeded returns InvalidArgument and changes neither the
\* finished file nor NumEntries.
C32_CallAfterFinishIsInvalidArgument ==
    [][(sst.b.finished /\ nops' = nops + 1) =>
           /\ last'.status = "InvalidArgument"
           /\ sst'.b.file = sst.b.file
           /\ sst'.b.num_entries = sst.b.num_entries]_vars

\* C33: when DB::Get returns NotFound the caller's *value holds what it held
\* before the call, whether the key was missed in the MemTables and in every
\* SSTable or a deletion marker was found for it.
C33_NotFoundLeavesValue ==
    (last.op = "Get" /\ last.status = "NotFound") => last.value = CallerValue

\* C33's case: Get of a key whose deletion marker is in the one SSTable file,
\* the MemTable being empty.
C33_Witness ==
    /\ last.op = "Get"
    /\ last.status = "NotFound"
    /\ last.value = CallerValue
    /\ coding = NoCoding
    /\ nfaults = 0
    /\ MemTableEmpty(db.memtable_)
    /\ Len(db.sstable_files_) = 1
    /\ Len(flushed) = 1
    /\ last.key \in DOMAIN flushed[1]
    /\ IsDeletionMarker(flushed[1][last.key])

\* C34: in the bytes BlockBuilder has written, every entry that begins at a
\* restart point has shared-prefix length 0 (its first byte, the varint of
\* that length), so that it carries its full key.
C34_RestartEntryHasFullKey ==
    \A i \in DOMAIN blk.b.restart_points :
        blk.b.restart_points[i] < Len(blk.b.buffer) =>
            blk.b.buffer[blk.b.restart_points[i] + 1] = 0

\* C35: no call but DestroyDB changes or removes an SSTable file that exists:
\* a flush writes to a path <dir>/0/<n>.sst that no file has yet, also after
\* the database was closed and opened again.
C35_NoSSTableOverwritten ==
    [][last'.op # "DestroyDB" =>
           \A n \in DOMAIN fs.sst :
               /\ n \in DOMAIN fs'.sst
               /\ fs'.sst[n] = fs.sst[n]]_vars

\* C36: a sealed MemTable that a failed flush left behind is flushed by a
\* later call: a Put, Delete or Write during which no I/O operation fails and
\* which returns OK writes it to an SSTable file, so that it does not stay
\* sealed for ever.
C36_SealedMemTableFlushedLater ==
    [][(/\ db.imm_memtable_ # <<>>
        /\ last'.op \in {"Put", "Delete", "Write"}
        /\ last'.io = NoIoFault
        /\ last'.status = "OK") =>
           /\ Len(db'.sstable_files_) > Len(db.sstable_files_)
           /\ db'.imm_memtable_ # db.imm_memtable_]_vars

\* What a replay of the records written owes the handler, from the n-th
\* record on, calls being the records handed over so far: [status, delivered].
RECURSIVE ReplayOwed(_, _, _, _)
ReplayOwed(written, n, calls, handler) ==
    LET Called(now) ==
            IF Len(now) = handler.fail_at
            THEN [status |-> handler.status, delivered |-> now]
            ELSE ReplayOwed(written, n + 1, now, handler)
    IN  IF n > Len(written) THEN [status |-> "OK", delivered |-> calls]
        ELSE IF written[n].type = kEof THEN [status |-> "OK", delivered |-> calls]
        ELSE IF written[n].type = kSync THEN ReplayOwed(written, n + 1, calls, handler)
        ELSE Called(Append(calls, [type |-> written[n].type, key |-> written[n].key,
                                   value |-> written[n].value]))

\* C37: WALReader::Replay hands the Put and Delete records to the handler in
\* file order, passes over Sync records, stops with OK at an Eof record, and
\* stops at the handler's first error, which it returns; no record after the
\* stop is handed over.
C37_ReplayDeliversInOrder ==
    wal.replayed.called =>
        LET Owed(o) ==
                /\ wal.replayed.status = o.status
                /\ wal.replayed.delivered = o.delivered
        IN  Owed(ReplayOwed(wal.written, 1, <<>>, wal.replayed.handler))

\* C37's case: the handler failed on the first of two records.
C37_Witness ==
    /\ wal.replayed.called
    /\ wal.replayed.handler.fail_at = 1
    /\ Len(wal.written) = 2
    /\ wal.written[1].type = kDelete
    /\ wal.written[2].type = kPut
    /\ wal.replayed.status = "InvalidArgument"
    /\ Len(wal.replayed.delivered) = 1

\* The entries a scan of a block from SeekToFirst by Next finds, in order.
RECURSIVE ScannedFrom(_, _)
ScannedFrom(d, found) ==
    IF d.status # "OK" \/ ~BlockReaderValid(d.r) THEN found
    ELSE ScannedFrom(BlockReaderNext(d.r),
                     Append(found, [key |-> d.r.current_key, value |-> d.r.current_value]))

IndexEntries(index_block_data) ==
    ScannedFrom(BlockReaderSeekToFirst(BlockReader(index_block_data)), <<>>)

\* C38: the index block of a finished SSTable has one entry per data block
\* written, in file order: its key is the last key added to the block, its
\* value the 16-byte handle of the block's body; the first body starts at
\* offset 0 and each later one right after the body, tag and CRC before it;
\* no data block is empty.
C38_IndexEntryPerDataBlock ==
    (sst.opened /\ sst.damage = 0 /\ sst.reader.valid) =>
        LET Indexed(es) ==
                /\ Len(es) = Len(sst.blocks)
                /\ \A n \in DOMAIN sst.blocks :
                       /\ es[n].key = sst.added[sst.blocks[n].last].key
                       /\ Len(es[n].value) = 16
                       /\ BlockHandleDecodeFrom(es[n].value)
                              = [offset |-> sst.blocks[n].from,
                                 size |-> sst.blocks[n].to - sst.blocks[n].from]
                       /\ sst.blocks[n].from = IF n = 1 THEN 0 ELSE sst.blocks[n - 1].to + 5
                       /\ sst.blocks[n].to > sst.blocks[n].from
                       /\ sst.blocks[n].first <= sst.blocks[n].last
        IN  Indexed(IndexEntries(sst.reader.index_block_data))

\* C38's case: a finished file of two data blocks, opened.
C38_Witness ==
    /\ sst.opened
    /\ sst.damage = 0
    /\ sst.reader.valid
    /\ Len(sst.blocks) = 2
    /\ sst.blocks[2].last = Len(sst.added)
    /\ Len(IndexEntries(sst.reader.index_block_data)) = 2

\* The second entry of the block is cut, or declares a value longer than the
\* bytes it has, or a shared prefix longer than the key before it.
RawMalformed(raw) ==
    /\ RawSecond(raw) # <<>>
    /\ \/ raw.missing > 0
       \/ raw.value_len > Len(RawValueBytes)
       \/ raw.shared_len > Len(raw.key)

\* The entries the block holds up to the first malformed one.
RawEntries(raw) ==
    <<[key |-> raw.key, value |-> raw.value]>> \o
        (IF RawSecond(raw) = <<>> \/ RawMalformed(raw) THEN <<>>
         ELSE <<[key |-> SubSeq(raw.key, 1, raw.shared_len)
                             \o SubSeq(RawKeyBytes, 1, raw.key_len),
                 value |-> SubSeq(RawValueBytes, 1, raw.value_len)]>>)

\* C39: BlockReader yields no entry from malformed block data: a decode that
\* returns OK has decoded an entry the block holds, with its key, and the
\* decode of an entry whose lengths run past data_size or whose shared-prefix
\* length exceeds the length of the key before it returns Corruption.
C39_MalformedEntryIsCorruption ==
    (blk.raw # <<>> /\ blk.phase = "scan") =>
        /\ Len(blk.seen) <= Len(RawEntries(blk.raw))
        /\ blk.seen = SubSeq(RawEntries(blk.raw), 1, Len(blk.seen))
        /\ blk.status = "OK" =>
               /\ blk.seen # <<>>
               /\ blk.r.current_key = blk.seen[Len(blk.seen)].key
        /\ (RawMalformed(blk.raw) /\ blk.status # "OK") => blk.status = "Corruption"

\* Every byte of bs has its continuation bit set.
AllContinue(bs) == \A i \in DOMAIN bs : bs[i] >= 128

\* The bytes DecodeVarint32 may look at: at most max_len, at most five.
Available == SubSeq(coding.src, 1, Min(coding.max_len, 5))

\* C40: DecodeVarint32 returns -1 for a truncated input (every available
\* byte, fewer than five, has its continuation bit set) and for an input
\* whose value does not fit 32 bits (a fifth byte with one of its bits 4..6
\* or its continuation bit set); decoding the bytes EncodeVarint32(n) wrote
\* returns n and the number of bytes written.
C40_VarintDecodeRejectsAndRoundTrips ==
    coding.op = "decoded" =>
        /\ (Len(Available) < 5 /\ AllContinue(Available)) => coding.len = -1
        /\ (/\ Len(Available) = 5
            /\ AllContinue(SubSeq(Available, 1, 4))
            /\ (Available[5] >= 128 \/ (Available[5] % 128) >= 16)) => coding.len = -1
        /\ coding.n >= 0 => (coding.len = coding.count /\ coding.value = coding.n)

====
